---- MODULE Spec2Model ----
(***************************************************************************)
(* Surface Tension Tester v5.0, mode-based controller                      *)
(* (src/MPU9250_Vibration_Monitor.ino, lines 362-1163).                    *)
(*                                                                         *)
(* One step of the model is one pass of loop(): LoadCell.update(), the     *)
(* serial dispatcher, the emergency-stop check, the handler of the current *)
(* mode and the tare-status check.  Every C function is an operator from a *)
(* state record to a state record; the inputs of a pass (bytes received,   *)
(* whether the planner's step interval has elapsed, the raw load-cell      *)
(* reading, ...) are the fields of an input record.                        *)
(*                                                                         *)
(* Lengths are in motor steps.  The stroke (testDistance, 24000 steps in   *)
(* the source) and the sampling interval (POSITION_SAMPLE_INTERVAL, 8      *)
(* steps) are scaled down to StrokeSteps and SampleSteps.  Raw load-cell   *)
(* readings are tenths of a gram and forces are tenths of a micro-newton,  *)
(* so that (total / SAMPLE_SIZE / 1000) * 9.81 is the integer              *)
(* total * 9810 / SAMPLE_SIZE.  A moving average is held as the sum of its *)
(* window (the average times the window size), so that it stays a whole    *)
(* number; readings are exact in float arithmetic at these magnitudes.     *)
(*                                                                         *)
(* The controller reads the force filter only through the value that       *)
(* getFilteredForce() returns.  In the controller's passes that value is   *)
(* an input (in.force): the window makes any sequence of returned values   *)
(* possible, the raw reading that yields a wanted total being              *)
(* oldest + wanted - total.  The window itself (readings, readIndex,       *)
(* total) is modelled by getFilteredForce and resetFilters, and explored   *)
(* on its own in SpecFilters, together with the filter of the earlier      *)
(* firmware (v3.0, lines 1165-1849) and of src/loadcell_100g.ino: a window *)
(* of 10 readings followed by a dead-band (movingAverageFilter,            *)
(* noiseFilter, getCurrentForce).                                          *)
(***************************************************************************)
EXTENDS Integers, Sequences, FiniteSets, TLC

\* ---------------------------------------------------------------- bounds
StrokeSteps == 4
SampleSteps == 2
MaxPos == 5
MaxStopSteps == 1
MaxTyped == 3
WaitStride == 7500

\* ------------------------------------------------------ program constants
NumTests == 8
SAMPLE_SIZE == 5
GRAVITY == 9810
NOISE_FILTER == 1
CONTACT_THRESHOLD == 500000
OVERLOAD_LIMIT == 50000000
DEFAULT_CAL_FACTOR == 16800
CAL_MIN == 5000
CAL_MAX == 50000

testDistance == StrokeSteps
POSITION_SAMPLE_INTERVAL == SampleSteps

\* Values getFilteredForce may return: rest, a force over the contact
\* threshold, a force over the overload limit.
Forces == {0, 1000000, 60000000}

\* Factors LoadCell.getNewCalibration may return: one within the range that
\* loadCalibrationFromEEPROM accepts, one over it.
CalFactors == {12000, 60000}

MODE_IDLE == "MODE_IDLE"
MODE_LIVE_MONITOR == "MODE_LIVE_MONITOR"
MODE_NORMAL_TEST == "MODE_NORMAL_TEST"
MODE_AUTO_SEQUENCE == "MODE_AUTO_SEQUENCE"
MODE_CALIBRATION == "MODE_CALIBRATION"
SystemMode == {MODE_IDLE, MODE_LIVE_MONITOR, MODE_NORMAL_TEST, MODE_AUTO_SEQUENCE, MODE_CALIBRATION}

MOTOR_IDLE == "MOTOR_IDLE"
MOTOR_MOVING_DOWN == "MOTOR_MOVING_DOWN"
MOTOR_RETURNING_HOME == "MOTOR_RETURNING_HOME"
MotorState == {MOTOR_IDLE, MOTOR_MOVING_DOWN, MOTOR_RETURNING_HOME}

\* The bytes an operator may send: every command of the dispatcher in the
\* cases the code distinguishes, a digit that is no profile, and a byte that
\* is no command.
DigitCmds == {"1", "2", "3", "4", "5", "6", "7", "8"}
Cmds == DigitCmds \cup {"Q", "q", "S", "s", "R", "r", "M", "A", "C", "T", "0", "H", "9", "x"}

VARIABLES
  currentMode, motorState,
  homePosition, targetPosition, currentTestIndex, nextAutoTestIndex,
  emergencyStop, contactDetected, lastSampledPosition, isStreaming,
  readings, readIndex, total, average, previousWeight,
  calibrationFactor, eeprom,
  stepperPos, stepperTarget, stepperSpeed,
  tareBusy, tareStatus,
  serialBuf, out,
  millis, testState, autoTestMode, isLogging

vars == <<currentMode, motorState, homePosition, targetPosition, currentTestIndex,
          nextAutoTestIndex, emergencyStop, contactDetected, lastSampledPosition,
          isStreaming, readings, readIndex, total, average, previousWeight,
          calibrationFactor, eeprom,
          stepperPos, stepperTarget, stepperSpeed, tareBusy, tareStatus,
          serialBuf, out, millis, testState, autoTestMode, isLogging>>

\* The program state as one record.
State ==
  [currentMode |-> currentMode, motorState |-> motorState,
   homePosition |-> homePosition, targetPosition |-> targetPosition,
   currentTestIndex |-> currentTestIndex, nextAutoTestIndex |-> nextAutoTestIndex,
   emergencyStop |-> emergencyStop, contactDetected |-> contactDetected,
   lastSampledPosition |-> lastSampledPosition, isStreaming |-> isStreaming,
   readings |-> readings, readIndex |-> readIndex, total |-> total,
   average |-> average, previousWeight |-> previousWeight,
   calibrationFactor |-> calibrationFactor, eeprom |-> eeprom,
   stepperPos |-> stepperPos, stepperTarget |-> stepperTarget,
   stepperSpeed |-> stepperSpeed, tareBusy |-> tareBusy, tareStatus |-> tareStatus,
   serialBuf |-> serialBuf, out |-> out,
   millis |-> millis, testState |-> testState, autoTestMode |-> autoTestMode,
   isLogging |-> isLogging]

\* The lines printed in a pass that the model records: the stream protocol
\* and the banners that mark the start of a test; the other prints carry
\* nothing that the state does not.
Logged == {"START_STREAM", "END_STREAM", "SAMPLE", "CONTACT", "INVALID_INDEX",
           "TEST", "AUTO_TEST", "AUTO_COMPLETE", "CAL_ABORT", "CAL_SAVED", "MASS",
           "WEIGHT", "DATA_START", "DATA_END", "TEST_STOPPED"}

Event(e, a) == [ev |-> e, arg |-> a]
Emit(s, e, a) == IF e \in Logged THEN [s EXCEPT !.out = Append(@, Event(e, a))] ELSE s

Abs(x) == IF x < 0 THEN -x ELSE x

\* The states of a test in the v3.0 firmware (IDLE, MOVING_DOWN,
\* RETURNING_HOME, COMPLETE) and in the AutoSpeedTest sketch (IDLE, MOVING,
\* RETURNING, WAITING).
TEST_IDLE == "IDLE"
TEST_MOVING_DOWN == "MOVING_DOWN"
TEST_RETURNING_HOME == "RETURNING_HOME"
TEST_COMPLETE == "COMPLETE"
TEST_MOVING == "MOVING"
TEST_RETURNING == "RETURNING"
TEST_WAITING == "WAITING"

\* millis() is an unsigned long of 32 bits, held as its two 16-bit halves.
\* Sums wrap at 2^32.
HalfWord == 65536
U32(h, l) == [hi |-> h, lo |-> l]
u32_add(a, k) ==
  LET l == a.lo + k
  IN U32((a.hi + (l \div HalfWord)) % HalfWord, l % HalfWord)
u32_less(a, b) == a.hi < b.hi \/ (a.hi = b.hi /\ a.lo < b.lo)
Sign(x) == IF x > 0 THEN 1 ELSE IF x < 0 THEN -1 ELSE 0

\* ------------------------------------------------ the stepper (AccelStepper)
\* AccelStepper as an ideal planner: at most one step per run(), toward the
\* target, no overshoot.  stepperSpeed is the sign of the planner's speed;
\* 0 means the step interval is 0 and run() generates no step.
stepper_computeNewSpeed(s) ==
  [s EXCEPT !.stepperSpeed = Sign(s.stepperTarget - s.stepperPos)]

stepper_moveTo(s, absolute) ==
  IF s.stepperTarget # absolute
  THEN stepper_computeNewSpeed([s EXCEPT !.stepperTarget = absolute])
  ELSE s

stepper_distanceToGo(s) == s.stepperTarget - s.stepperPos

\* due: the step interval has elapsed since the last step.
stepper_run(s, due) ==
  IF s.stepperSpeed # 0 /\ due
  THEN stepper_computeNewSpeed([s EXCEPT !.stepperPos = @ + s.stepperSpeed])
  ELSE s

\* stop(): a new target stopSteps ahead in the direction of travel, if moving.
stepper_stop(s, stopSteps) ==
  IF s.stepperSpeed # 0
  THEN stepper_moveTo(s, s.stepperPos + s.stepperSpeed * stopSteps)
  ELSE s

stepper_setSpeed(s, speed) == [s EXCEPT !.stepperSpeed = Sign(speed)]

\* ------------------------------------------------------------ force filter
RECURSIVE SumUpTo(_, _)
SumUpTo(f, n) == IF n = 0 THEN 0 ELSE f[n - 1] + SumUpTo(f, n - 1)

\* The value getFilteredForce returns for a running total.
force_N(tot) ==
  LET f == (tot * GRAVITY) \div SAMPLE_SIZE
  IN IF f > 0 THEN f ELSE 0

getFilteredForce_NoSubtract(s, rawValue) ==
  LET r1 == [s.readings EXCEPT ![s.readIndex] = rawValue]
      t2 == s.total + r1[s.readIndex]
  IN [s EXCEPT !.total = t2, !.readings = r1,
               !.readIndex = (s.readIndex + 1) % SAMPLE_SIZE]

getFilteredForce(s, rawValue) ==
  LET t1 == s.total - s.readings[s.readIndex]
      r1 == [s.readings EXCEPT ![s.readIndex] = rawValue]
      t2 == t1 + r1[s.readIndex]
  IN [s EXCEPT !.total = t2, !.readings = r1,
               !.readIndex = (s.readIndex + 1) % SAMPLE_SIZE]

resetFilters(s) ==
  [s EXCEPT !.readings = [i \in 0..(SAMPLE_SIZE - 1) |-> 0], !.total = 0, !.readIndex = 0]

\* --- the filter with a dead-band (v3.0 firmware, src/loadcell_100g.ino)
\* The window there is SAMPLE_SIZE = 10; the operators take the size from the
\* window they are given.
SCALE_SAMPLE_SIZE == 10

WindowSize(s) == Cardinality(DOMAIN s.readings)

\* Returns average, held as the window's sum.
movingAverageFilter(s, newReading) ==
  LET t1 == s.total - s.readings[s.readIndex]
      r1 == [s.readings EXCEPT ![s.readIndex] = newReading]
      t2 == t1 + r1[s.readIndex]
  IN [s EXCEPT !.total = t2, !.readings = r1,
               !.readIndex = (s.readIndex + 1) % WindowSize(s),
               !.average = t2]

noiseFilter_StoresEveryValue(s, value) ==
  IF Abs(value - s.previousWeight) < NOISE_FILTER * WindowSize(s)
  THEN [val |-> s.previousWeight, s |-> [s EXCEPT !.previousWeight = value]]
  ELSE [val |-> value, s |-> [s EXCEPT !.previousWeight = value]]

\* value and previousWeight are averages, held as sums of the window.
noiseFilter(s, value) ==
  IF Abs(value - s.previousWeight) < NOISE_FILTER * WindowSize(s)
  THEN [val |-> s.previousWeight, s |-> s]
  ELSE [val |-> value, s |-> [s EXCEPT !.previousWeight = value]]

\* The two filters in a row, as loop() of the scale and getCurrentForce call
\* them.
filteredValue(s, rawValue) ==
  LET s1 == movingAverageFilter(s, rawValue)
  IN noiseFilter(s1, s1.average)

getCurrentForce(s, rawValue) ==
  LET fv == filteredValue(s, rawValue)
      f == (fv.val * GRAVITY) \div WindowSize(s)
  IN [val |-> IF f < 0 THEN 0 ELSE f, s |-> fv.s]

\* resetFilters() of the v3.0 firmware and of the scale: readIndex is kept.
scale_resetFilters(s) ==
  [s EXCEPT !.readings = [i \in DOMAIN s.readings |-> 0], !.total = 0,
            !.average = 0, !.previousWeight = 0]

\* -------------------------------------------------------------- streaming
startStreaming_KeepsLastSampled(s) ==
  Emit([s EXCEPT !.isStreaming = TRUE], "START_STREAM", 0)

startStreaming(s) ==
  Emit([s EXCEPT !.isStreaming = TRUE, !.lastSampledPosition = s.stepperPos],
       "START_STREAM", 0)

stopStreaming_NoMarker(s) == [s EXCEPT !.isStreaming = FALSE]

stopStreaming_Unconditional(s) == Emit([s EXCEPT !.isStreaming = FALSE], "END_STREAM", 0)

stopStreaming(s) ==
  IF ~s.isStreaming THEN s
  ELSE Emit([s EXCEPT !.isStreaming = FALSE], "END_STREAM", 0)

streamDataPoint(s, motorSteps) == Emit(s, "SAMPLE", motorSteps)

\* ------------------------------------------------------------ LIVE MONITOR
\* due: MONITOR_UPDATE_INTERVAL has elapsed since the last display.
handleLiveMonitorMode(s, due, force) ==
  IF due THEN Emit(s, "FORCE", force) ELSE s

enterLiveMonitorMode(s) ==
  [s EXCEPT !.currentMode = MODE_LIVE_MONITOR, !.motorState = MOTOR_IDLE,
            !.isStreaming = FALSE]

\* ------------------------------------------------------------- NORMAL TEST
enterNormalTestMode_OffByOne(s, testIndex) ==
  IF testIndex < 0 \/ testIndex > NumTests
  THEN Emit(s, "INVALID_INDEX", testIndex)
  ELSE LET s1 == Emit([s EXCEPT !.currentMode = MODE_NORMAL_TEST,
                                !.motorState = MOTOR_MOVING_DOWN,
                                !.currentTestIndex = testIndex],
                      "TEST", testIndex)
           s2 == [s1 EXCEPT !.contactDetected = FALSE,
                            !.lastSampledPosition = s.homePosition,
                            !.targetPosition = s.homePosition + testDistance]
           s3 == stepper_moveTo(s2, s2.targetPosition)
       IN startStreaming(s3)

enterNormalTestMode_AbsoluteTarget(s, testIndex) ==
  IF testIndex < 0 \/ testIndex >= NumTests
  THEN Emit(s, "INVALID_INDEX", testIndex)
  ELSE LET s1 == Emit([s EXCEPT !.currentMode = MODE_NORMAL_TEST,
                                !.motorState = MOTOR_MOVING_DOWN,
                                !.currentTestIndex = testIndex],
                      "TEST", testIndex)
           s2 == [s1 EXCEPT !.contactDetected = FALSE,
                            !.lastSampledPosition = s.homePosition,
                            !.targetPosition = testDistance]
           s3 == stepper_moveTo(s2, s2.targetPosition)
       IN startStreaming(s3)

enterNormalTestMode(s, testIndex) ==
  IF testIndex < 0 \/ testIndex >= NumTests
  THEN Emit(s, "INVALID_INDEX", testIndex)
  ELSE LET s1 == Emit([s EXCEPT !.currentMode = MODE_NORMAL_TEST,
                                !.motorState = MOTOR_MOVING_DOWN,
                                !.currentTestIndex = testIndex],
                      "TEST", testIndex)
           s2 == [s1 EXCEPT !.contactDetected = FALSE,
                            !.lastSampledPosition = s.homePosition,
                            !.targetPosition = s.homePosition + testDistance]
           s3 == stepper_moveTo(s2, s2.targetPosition)
       IN startStreaming(s3)

exitNormalTestMode(s) ==
  LET s1 == stopStreaming(s)
  IN Emit([s1 EXCEPT !.currentMode = MODE_IDLE, !.motorState = MOTOR_IDLE,
                     !.isStreaming = FALSE],
          "MENU", 0)

\* ----------------------------------------------------------- AUTO SEQUENCE
enterAutoSequenceMode_KeepsCursor(s) ==
  [s EXCEPT !.currentMode = MODE_AUTO_SEQUENCE, !.motorState = MOTOR_IDLE]

enterAutoSequenceMode(s) ==
  [s EXCEPT !.currentMode = MODE_AUTO_SEQUENCE, !.motorState = MOTOR_IDLE,
            !.nextAutoTestIndex = 0]

setupNextAutoTest_NoAdvance(s) ==
  IF s.nextAutoTestIndex >= NumTests THEN s
  ELSE LET testIndex == s.nextAutoTestIndex
           s1 == Emit([s EXCEPT !.currentTestIndex = testIndex], "AUTO_TEST", testIndex)
           s2 == [s1 EXCEPT !.contactDetected = FALSE,
                            !.lastSampledPosition = s.homePosition,
                            !.motorState = MOTOR_MOVING_DOWN,
                            !.targetPosition = s.homePosition + testDistance]
           s3 == stepper_moveTo(s2, s2.targetPosition)
       IN startStreaming(s3)

setupNextAutoTest(s) ==
  IF s.nextAutoTestIndex >= NumTests THEN s
  ELSE LET testIndex == s.nextAutoTestIndex
           s1 == Emit([s EXCEPT !.currentTestIndex = testIndex], "AUTO_TEST", testIndex)
           s2 == [s1 EXCEPT !.contactDetected = FALSE,
                            !.lastSampledPosition = s.homePosition,
                            !.motorState = MOTOR_MOVING_DOWN,
                            !.targetPosition = s.homePosition + testDistance]
           s3 == stepper_moveTo(s2, s2.targetPosition)
           s4 == startStreaming(s3)
       IN [s4 EXCEPT !.nextAutoTestIndex = @ + 1]

exitAutoSequenceMode(s) ==
  Emit([s EXCEPT !.currentMode = MODE_IDLE, !.motorState = MOTOR_IDLE,
                 !.isStreaming = FALSE, !.nextAutoTestIndex = 0],
       "MENU", 0)

\* ---------------------------------------------------- motor state handlers
handleMovingDown_LogsEveryCrossing(s, due, currentForce) ==
  LET s1 == stepper_run(s, due)
      currentPosition == s1.stepperPos
      positionDelta == Abs(currentPosition - s1.lastSampledPosition)
      sampled == positionDelta >= POSITION_SAMPLE_INTERVAL
      s2 == IF sampled
            THEN [s1 EXCEPT !.lastSampledPosition = currentPosition]
            ELSE s1
      s3 == IF sampled /\ currentForce > CONTACT_THRESHOLD
            THEN Emit([s2 EXCEPT !.contactDetected = TRUE], "CONTACT", currentPosition)
            ELSE s2
      s4 == IF sampled /\ s3.isStreaming THEN streamDataPoint(s3, currentPosition) ELSE s3
  IN IF sampled /\ currentForce > OVERLOAD_LIMIT
     THEN Emit([s3 EXCEPT !.emergencyStop = TRUE], "OVERLOAD", currentPosition)
     ELSE IF stepper_distanceToGo(s4) = 0
          THEN LET s5 == stopStreaming(s4)
                   s6 == [s5 EXCEPT !.motorState = MOTOR_RETURNING_HOME]
               IN Emit(stepper_moveTo(s6, s6.homePosition), "RETURNING", 0)
          ELSE s4

handleMovingDown(s, due, currentForce) ==
  LET s1 == stepper_run(s, due)
      currentPosition == s1.stepperPos
      positionDelta == Abs(currentPosition - s1.lastSampledPosition)
      sampled == positionDelta >= POSITION_SAMPLE_INTERVAL
      s2 == IF sampled
            THEN [s1 EXCEPT !.lastSampledPosition = currentPosition]
            ELSE s1
      s3 == IF sampled /\ ~s2.contactDetected /\ currentForce > CONTACT_THRESHOLD
            THEN Emit([s2 EXCEPT !.contactDetected = TRUE], "CONTACT", currentPosition)
            ELSE s2
      s4 == IF sampled /\ s3.isStreaming THEN streamDataPoint(s3, currentPosition) ELSE s3
  IN IF sampled /\ currentForce > OVERLOAD_LIMIT
     THEN Emit([s3 EXCEPT !.emergencyStop = TRUE], "OVERLOAD", currentPosition)
     ELSE IF stepper_distanceToGo(s4) = 0
          THEN LET s5 == stopStreaming(s4)
                   s6 == [s5 EXCEPT !.motorState = MOTOR_RETURNING_HOME]
               IN Emit(stepper_moveTo(s6, s6.homePosition), "RETURNING", 0)
          ELSE s4

handleReturningHome(s, due) ==
  LET s1 == stepper_run(s, due)
  IN IF stepper_distanceToGo(s1) = 0
     THEN LET s2 == Emit([s1 EXCEPT !.motorState = MOTOR_IDLE], "HOME_REACHED", 0)
          IN IF s2.currentMode = MODE_NORMAL_TEST THEN exitNormalTestMode(s2) ELSE s2
     ELSE s1

handleNormalTestMode(s, due, force) ==
  CASE s.motorState = MOTOR_IDLE -> s
    [] s.motorState = MOTOR_MOVING_DOWN -> handleMovingDown(s, due, force)
    [] s.motorState = MOTOR_RETURNING_HOME -> handleReturningHome(s, due)

handleAutoSequenceMode(s, due, force) ==
  CASE s.motorState = MOTOR_IDLE ->
         IF s.nextAutoTestIndex < NumTests
         THEN setupNextAutoTest(s)
         ELSE exitAutoSequenceMode(Emit(s, "AUTO_COMPLETE", 0))
    [] s.motorState = MOTOR_MOVING_DOWN -> handleMovingDown(s, due, force)
    [] s.motorState = MOTOR_RETURNING_HOME -> handleReturningHome(s, due)

\* ---------------------------------------------------------- emergency stop
IsReset(cmd) == cmd \in {"R", "r"}

handleEmergencyStop_NoSetSpeed(s, stopSteps) ==
  LET s1 == stepper_stop(s, stopSteps)
      s2 == stopStreaming(s1)
  IN IF Len(s2.serialBuf) > 0
     THEN LET cmd == Head(s2.serialBuf)
              s3 == [s2 EXCEPT !.serialBuf = Tail(@)]
          IN IF IsReset(cmd)
             THEN [s3 EXCEPT !.emergencyStop = FALSE, !.motorState = MOTOR_IDLE]
             ELSE s3
     ELSE s2

handleEmergencyStop(s, stopSteps) ==
  LET s1 == stepper_setSpeed(stepper_stop(s, stopSteps), 0)
      s2 == Emit(stopStreaming(s1), "ESTOP_ACTIVE", 0)
  IN IF Len(s2.serialBuf) > 0
     THEN LET cmd == Head(s2.serialBuf)
              s3 == [s2 EXCEPT !.serialBuf = Tail(@)]
          IN IF IsReset(cmd)
             THEN Emit([s3 EXCEPT !.emergencyStop = FALSE, !.motorState = MOTOR_IDLE],
                       "RESET", 0)
             ELSE s3
     ELSE s2

\* ------------------------------------------------------------- calibration
\* The calibration factor is a float, stored as its four bytes.  A float is
\* modelled by an integer when it is a number; NaN stands for the bit patterns
\* that are no number, among them the erased EEPROM's 0xFFFFFFFF; its value
\* here, 0x7FFFFFFF, is no float's value.  A comparison with NaN is false.
NaN == 2147483647

FloatLess(a, b) == a # NaN /\ b # NaN /\ a < b

saveCalibrationToEEPROM(s) == [s EXCEPT !.eeprom = s.calibrationFactor]

loadCalibrationFromEEPROM_NoLowerBound(s) ==
  LET v == s.eeprom
  IN IF FloatLess(CAL_MAX, v)
     THEN [s EXCEPT !.calibrationFactor = DEFAULT_CAL_FACTOR]
     ELSE [s EXCEPT !.calibrationFactor = v]

loadCalibrationFromEEPROM(s) ==
  LET v == s.eeprom
  IN IF FloatLess(v, CAL_MIN) \/ FloatLess(CAL_MAX, v)
     THEN [s EXCEPT !.calibrationFactor = DEFAULT_CAL_FACTOR]
     ELSE [s EXCEPT !.calibrationFactor = v]

LoadCell_tareNoDelay(s) == [s EXCEPT !.tareBusy = TRUE, !.tareStatus = FALSE]

\* LoadCell.getTareStatus(): the flag, which the call clears.
LoadCell_getTareStatus(s) == [val |-> s.tareStatus, s |-> [s EXCEPT !.tareStatus = FALSE]]

\* LoadCell.update(): a tare in progress completes when tareDone.
LoadCell_update(s, tareDone) ==
  IF s.tareBusy /\ tareDone
  THEN [s EXCEPT !.tareBusy = FALSE, !.tareStatus = TRUE]
  ELSE s

exitCalibrationMode_ResetsFactor(s) ==
  resetFilters([s EXCEPT !.currentMode = MODE_IDLE, !.motorState = MOTOR_IDLE,
                         !.calibrationFactor = DEFAULT_CAL_FACTOR])

exitCalibrationMode(s) ==
  Emit(resetFilters([s EXCEPT !.currentMode = MODE_IDLE, !.motorState = MOTOR_IDLE]),
       "MENU", 0)

\* --- getUserInputMass
\* The bytes an operator may type at the mass prompt.
NL == "\n"
MassChars == {"0", "5", ".", "-", "a", NL}

isDigit(c) == c \in {"0", "1", "2", "3", "4", "5", "6", "7", "8", "9"}

DigitVal(c) ==
  CASE c = "0" -> 0 [] c = "1" -> 1 [] c = "2" -> 2 [] c = "3" -> 3 [] c = "4" -> 4
    [] c = "5" -> 5 [] c = "6" -> 6 [] c = "7" -> 7 [] c = "8" -> 8 [] c = "9" -> 9

RECURSIVE Pow10(_)
Pow10(n) == IF n = 0 THEN 1 ELSE 10 * Pow10(n - 1)

\* Masses are in units of 10^-MaxTyped g, so that every number of at most
\* MaxTyped characters is an integer.
MassUnit == Pow10(MaxTyped)

\* The index after the digits of str that begin at i.
RECURSIVE DigitsEnd(_, _)
DigitsEnd(str, i) ==
  IF i <= Len(str) /\ isDigit(str[i]) THEN DigitsEnd(str, i + 1) ELSE i

\* The number that the digits str[i], ..., str[j - 1] write.
RECURSIVE NumVal(_, _, _)
NumVal(str, i, j) ==
  IF j <= i THEN 0 ELSE 10 * NumVal(str, i, j - 1) + DigitVal(str[j - 1])

\* String::toFloat() on a string of digits and dots: the longest prefix that
\* is a decimal number (digits, then a dot and digits), 0 if there is none.
toFloat(str) ==
  LET e1 == DigitsEnd(str, 1)
      hasDot == e1 <= Len(str) /\ str[e1] = "."
      e2 == IF hasDot THEN DigitsEnd(str, e1 + 1) ELSE e1
      fracDigits == IF hasDot THEN e2 - e1 - 1 ELSE 0
  IN NumVal(str, 1, e1) * MassUnit
     + (IF hasDot THEN NumVal(str, e1 + 1, e2) * Pow10(MaxTyped - fracDigits) ELSE 0)

\* The read loop: buf is what the operator types before the timeout.
RECURSIVE readMass(_, _)
readMass(buf, inputString) ==
  IF buf = <<>> THEN [mass |-> -1, rest |-> buf]
  ELSE LET c == Head(buf)
       IN IF c = NL
          THEN IF Len(inputString) > 0
               THEN LET mass == toFloat(inputString)
                    IN [mass |-> IF mass > 0 THEN mass ELSE -1, rest |-> Tail(buf)]
               ELSE readMass(Tail(buf), inputString)
          ELSE IF isDigit(c) \/ c = "."
               THEN readMass(Tail(buf), Append(inputString, c))
               ELSE readMass(Tail(buf), inputString)

getUserInputMass(s) ==
  LET r == readMass(s.serialBuf, <<>>)
  IN [mass |-> r.mass, s |-> [s EXCEPT !.serialBuf = r.rest]]

\* --- the workflow
\* What a run of the blocking workflow reads:
\*   gotT     the wait for the operator's T ends with a T read (waitForTare)
\*   tareDone the tare completes within 5 s
\*   typed    the bytes typed at the mass prompt before its timeout
\*   factor   the value LoadCell.getNewCalibration returns
CalInput(g, d, ty, f) == [gotT |-> g, tareDone |-> d, typed |-> ty, factor |-> f]

NoCal == CalInput(FALSE, FALSE, <<>>, 0)

CalRuns(typedSet, factors) ==
  {NoCal} \cup {CalInput(TRUE, d, ty, f) : d \in BOOLEAN, ty \in typedSet, f \in factors}

handleCalibrationMode(s, cal) ==
  LET s0 == [s EXCEPT !.serialBuf = <<>>]
  IN IF ~cal.gotT
     THEN exitCalibrationMode(Emit(s0, "CAL_ABORT", 1))
     ELSE LET s1 == LoadCell_tareNoDelay(s0)
              \* the wait loop ends on the first getTareStatus() that is true
              s2 == IF cal.tareDone
                    THEN LoadCell_getTareStatus(LoadCell_update(s1, TRUE)).s
                    ELSE s1
              st == LoadCell_getTareStatus(s2)
          IN IF ~st.val
             THEN exitCalibrationMode(Emit(st.s, "CAL_ABORT", 2))
             ELSE LET m == getUserInputMass([st.s EXCEPT !.serialBuf = cal.typed])
                  IN IF m.mass < 0
                     THEN exitCalibrationMode(Emit(m.s, "CAL_ABORT", 3))
                     ELSE LET s3 == [m.s EXCEPT !.calibrationFactor = cal.factor]
                          IN exitCalibrationMode(
                               Emit(saveCalibrationToEEPROM(s3), "CAL_SAVED", 0))

\* --- the wait for the operator's T
\* tareTimeout = millis() + 60000; while (!taredOK && millis() < tareTimeout):
\* the wait begins at clock value start, a pass of the loop takes WaitStride
\* ms, and the operator's T arrives tAt ms after the wait began (NoT: never).
\* The result is whether a T was read and the ms the wait took.
TARE_TIMEOUT_MS == 60000
NoT == -1

RECURSIVE tareWaitLoop(_, _, _, _)
tareWaitLoop(start, tareTimeout, elapsed, tAt) ==
  IF ~u32_less(u32_add(start, elapsed), tareTimeout)
  THEN [taredOK |-> FALSE, elapsed |-> elapsed]
  ELSE IF tAt # NoT /\ tAt <= elapsed
       THEN [taredOK |-> TRUE, elapsed |-> elapsed]
       ELSE tareWaitLoop(start, tareTimeout, elapsed + WaitStride, tAt)

waitForTare(start, tAt) ==
  tareWaitLoop(start, u32_add(start, TARE_TIMEOUT_MS), 0, tAt)

\* handleCalibrationMode entered at clock value s.millis.
handleCalibrationModeAt(s, tAt, cal) ==
  LET w == waitForTare(s.millis, tAt)
      t == handleCalibrationMode(s, [cal EXCEPT !.gotT = w.taredOK])
  IN [t EXCEPT !.millis = u32_add(s.millis, w.elapsed)]

\* ------------------------------------------------------- command dispatcher
DigitIndex(cmd) ==
  CASE cmd = "1" -> 0 [] cmd = "2" -> 1 [] cmd = "3" -> 2 [] cmd = "4" -> 3
    [] cmd = "5" -> 4 [] cmd = "6" -> 5 [] cmd = "7" -> 6 [] cmd = "8" -> 7

goHome_ToPowerUpPosition(s) ==
  LET s1 == stepper_moveTo(s, 0)
  IN IF stepper_distanceToGo(s1) = 0
     THEN Emit(s1, "HOME_REACHED", 0)
     ELSE Emit(stepper_computeNewSpeed([s1 EXCEPT !.stepperPos = s1.stepperTarget]),
               "HOME_REACHED", 0)

\* The blocking go-home of command H: moveTo(homePosition), then run() until
\* distanceToGo() is 0.
goHome(s) ==
  LET s1 == stepper_moveTo(s, s.homePosition)
  IN IF stepper_distanceToGo(s1) = 0
     THEN Emit(s1, "HOME_REACHED", 0)
     ELSE Emit(stepper_computeNewSpeed([s1 EXCEPT !.stepperPos = s1.stepperTarget]),
               "HOME_REACHED", 0)

\* The go-home loop ends only if the planner generates steps.
goHomeTerminates(s) ==
  LET s1 == stepper_moveTo(s, s.homePosition)
  IN stepper_distanceToGo(s1) = 0 \/ s1.stepperSpeed # 0

dispatchCommand(s, cmd, stopSteps) ==
  CASE cmd \in DigitCmds -> enterNormalTestMode(s, DigitIndex(cmd))
    [] cmd \in {"M", "m"} -> enterLiveMonitorMode(s)
    [] cmd \in {"A", "a"} -> enterAutoSequenceMode(s)
    [] cmd \in {"C", "c"} -> [s EXCEPT !.currentMode = MODE_CALIBRATION]
    [] cmd \in {"T", "t"} -> LoadCell_tareNoDelay(s)
    [] cmd = "0" -> [s EXCEPT !.homePosition = s.stepperPos]
    [] cmd \in {"H", "h"} -> goHome(s)
    [] cmd \in {"S", "s"} ->
         IF s.motorState # MOTOR_IDLE
         THEN LET s1 == stopStreaming(stepper_stop(s, stopSteps))
              IN Emit([s1 EXCEPT !.motorState = MOTOR_IDLE], "STOPPED", 0)
         ELSE s
    [] OTHER -> s

exitToIdle_ClearsLatch(s, stopSteps) ==
  IF s.currentMode # MODE_IDLE
  THEN LET s1 == stepper_stop(stopStreaming(s), stopSteps)
       IN [s1 EXCEPT !.motorState = MOTOR_IDLE, !.currentMode = MODE_IDLE,
                     !.emergencyStop = FALSE]
  ELSE s

exitToIdle_KeepsMotorState(s, stopSteps) ==
  IF s.currentMode # MODE_IDLE
  THEN LET s1 == stepper_stop(stopStreaming(s), stopSteps)
       IN [s1 EXCEPT !.currentMode = MODE_IDLE]
  ELSE s

\* The Q branch of the dispatcher.
exitToIdle(s, stopSteps) ==
  IF s.currentMode # MODE_IDLE
  THEN LET s1 == stepper_stop(stopStreaming(s), stopSteps)
       IN Emit([s1 EXCEPT !.motorState = MOTOR_IDLE, !.currentMode = MODE_IDLE], "MENU", 0)
  ELSE s

lockedOut_MovingDownOnly(s, cmd) ==
  s.motorState = MOTOR_MOVING_DOWN /\ cmd \notin {"S", "s", "R", "r"}

\* The lockout: while a motor state is active only S and R pass.
lockedOut_Never(s, cmd) == FALSE

lockedOut(s, cmd) == s.motorState # MOTOR_IDLE /\ cmd \notin {"S", "s", "R", "r"}

handleSerialCommand_ReadsOne(s, stopSteps) ==
  IF Len(s.serialBuf) > 0
  THEN LET cmd == Head(s.serialBuf)
           s1 == [s EXCEPT !.serialBuf = Tail(@)]
       IN IF cmd \in {"Q", "q"} THEN exitToIdle(s1, stopSteps)
          ELSE IF lockedOut(s1, cmd) THEN s1
          ELSE dispatchCommand(s1, cmd, stopSteps)
  ELSE s

handleSerialCommand(s, stopSteps) ==
  IF Len(s.serialBuf) > 0
  THEN LET cmd == Head(s.serialBuf)
           s1 == [s EXCEPT !.serialBuf = <<>>]
       IN IF cmd \in {"Q", "q"} THEN exitToIdle(s1, stopSteps)
          ELSE IF lockedOut(s1, cmd) THEN s1
          ELSE dispatchCommand(s1, cmd, stopSteps)
  ELSE s

\* --------------------------------------------------------------- main loop
\* The inputs of one pass:
\*   rx        bytes received before the dispatcher reads the serial buffer
\*   late      bytes received after it, before the emergency-stop handler reads
\*   due       the interval the handler waits for (the planner's step interval,
\*             MONITOR_UPDATE_INTERVAL) has elapsed
\*   raw       the load cell's reading, if one is taken
\*   stopSteps the planner's stopping distance, if stop() is called while moving
\*   tareDone  a tare in progress completes in this pass
\*   cal       how the calibration workflow ends, if it runs
checkTare_ResetsFactor(s) ==
  LET st == LoadCell_getTareStatus(s)
  IN IF st.val
     THEN Emit(resetFilters([st.s EXCEPT !.calibrationFactor = DEFAULT_CAL_FACTOR]),
               "TARE_COMPLETE", 0)
     ELSE st.s

checkTare(s) ==
  LET st == LoadCell_getTareStatus(s)
  IN IF st.val THEN Emit(resetFilters(st.s), "TARE_COMPLETE", 0) ELSE st.s

runModeHandler(s, in) ==
  CASE s.currentMode = MODE_IDLE -> s
    [] s.currentMode = MODE_LIVE_MONITOR -> handleLiveMonitorMode(s, in.due, in.force)
    [] s.currentMode = MODE_NORMAL_TEST -> handleNormalTestMode(s, in.due, in.force)
    [] s.currentMode = MODE_AUTO_SEQUENCE -> handleAutoSequenceMode(s, in.due, in.force)
    [] s.currentMode = MODE_CALIBRATION -> handleCalibrationMode(s, in.cal)

\* The state when the emergency-stop check is reached.
afterDispatch(s, in) ==
  LET s0 == LoadCell_update([s EXCEPT !.out = <<>>, !.serialBuf = @ \o in.rx], in.tareDone)
      s1 == IF s0.currentMode # MODE_CALIBRATION
            THEN handleSerialCommand(s0, in.stopSteps)
            ELSE s0
  IN [s1 EXCEPT !.serialBuf = @ \o in.late]

loop_HandlerUnderStop(s, in) ==
  LET s1 == afterDispatch(s, in)
  IN IF s1.emergencyStop
     THEN checkTare(runModeHandler(handleEmergencyStop(s1, in.stopSteps), in))
     ELSE checkTare(runModeHandler(s1, in))

loop(s, in) ==
  LET s1 == afterDispatch(s, in)
  IN IF s1.emergencyStop
     THEN handleEmergencyStop(s1, in.stopSteps)
     ELSE checkTare(runModeHandler(s1, in))

\* ------------------------------------------------------------------ inputs
\* Bytes that arrive while the emergency-stop handler is about to read: the
\* reset and a byte that is not the reset.
LateBytes == {"R", "x"}

\* Set-home is taken only where a later stroke stays within MaxPos.
CmdAllowed(s, c) == c = "0" => s.stepperPos + testDistance <= MaxPos

\* An environment: the first bytes an operator sends, the forces the filter
\* returns, what the runs of the calibration workflow read, the values the
\* EEPROM holds at power-up.
\* At most one byte arrives between two reads of the serial buffer.
RxChoices(env, s) ==
  {<<>>} \cup
  (IF Len(s.serialBuf) > 0 THEN {}
   ELSE {<<c>> : c \in {c \in env.cmds : CmdAllowed(s, c)}})

BaseInput(r, td, st) ==
  [rx |-> r, late |-> <<>>, due |-> FALSE, force |-> 0, stopSteps |-> st,
   tareDone |-> td, cal |-> NoCal]

\* Whether handleMovingDown takes a force sample in this pass.
takesSample(s, due) ==
  LET s1 == stepper_run(s, due)
  IN Abs(s1.stepperPos - s1.lastSampledPosition) >= POSITION_SAMPLE_INTERVAL

\* The inputs that the rest of the pass reads, given the state at the
\* emergency-stop check.
RestInputs(env, s1, b) ==
  IF s1.emergencyStop
  THEN {b} \cup
       (IF Len(s1.serialBuf) > 0 THEN {}
        ELSE {[b EXCEPT !.late = <<c>>] : c \in LateBytes})
  ELSE CASE s1.currentMode = MODE_LIVE_MONITOR ->
              {b} \cup {[b EXCEPT !.due = TRUE, !.force = w] : w \in env.forces}
         [] s1.currentMode = MODE_CALIBRATION ->
              {[b EXCEPT !.cal = c] : c \in env.cals}
         [] s1.currentMode \in {MODE_NORMAL_TEST, MODE_AUTO_SEQUENCE}
              /\ s1.motorState = MOTOR_MOVING_DOWN ->
              UNION {IF takesSample(s1, d)
                     THEN {[b EXCEPT !.due = d, !.force = w] : w \in env.forces}
                     ELSE {[b EXCEPT !.due = d]} : d \in BOOLEAN}
         [] s1.currentMode \in {MODE_NORMAL_TEST, MODE_AUTO_SEQUENCE}
              /\ s1.motorState = MOTOR_RETURNING_HOME ->
              {[b EXCEPT !.due = d] : d \in BOOLEAN}
         [] OTHER -> {b}

InputsWith(env, s, r) ==
  UNION {RestInputs(env, afterDispatch(s, BaseInput(r, td, st)), BaseInput(r, td, st)) :
           td \in (IF s.tareBusy THEN BOOLEAN ELSE {FALSE}),
           st \in (IF s.stepperSpeed # 0 THEN 1..MaxStopSteps ELSE {1})}

\* A pass ends unless its go-home loop cannot.
Terminates(s, in) ==
  LET s0 == LoadCell_update([s EXCEPT !.serialBuf = @ \o in.rx], in.tareDone)
  IN (/\ s0.currentMode # MODE_CALIBRATION
      /\ Len(s0.serialBuf) > 0
      /\ Head(s0.serialBuf) \in {"H", "h"}
      /\ ~lockedOut(s0, Head(s0.serialBuf)))
     => goHomeTerminates(s0)

\* ------------------------------------------------------------ specification
\* The state after setup().
SetupState(e, size) ==
  [currentMode |-> MODE_IDLE, motorState |-> MOTOR_IDLE,
   homePosition |-> 0, targetPosition |-> 0,
   currentTestIndex |-> -1, nextAutoTestIndex |-> -1,
   emergencyStop |-> FALSE, contactDetected |-> FALSE,
   lastSampledPosition |-> 0, isStreaming |-> FALSE,
   readings |-> [i \in 0..(size - 1) |-> 0], readIndex |-> 0, total |-> 0,
   average |-> 0, previousWeight |-> 0,
   eeprom |-> e,
   calibrationFactor |->
     loadCalibrationFromEEPROM([eeprom |-> e, calibrationFactor |-> DEFAULT_CAL_FACTOR]).calibrationFactor,
   stepperPos |-> 0, stepperTarget |-> 0, stepperSpeed |-> 0,
   tareBusy |-> FALSE, tareStatus |-> FALSE,
   serialBuf |-> <<>>, out |-> <<>>,
   millis |-> U32(0, 0),
   testState |-> TEST_IDLE, autoTestMode |-> FALSE, isLogging |-> FALSE]

\* The state is the record t.
StateIs(t) ==
  /\ currentMode = t.currentMode /\ motorState = t.motorState
  /\ homePosition = t.homePosition /\ targetPosition = t.targetPosition
  /\ currentTestIndex = t.currentTestIndex /\ nextAutoTestIndex = t.nextAutoTestIndex
  /\ emergencyStop = t.emergencyStop /\ contactDetected = t.contactDetected
  /\ lastSampledPosition = t.lastSampledPosition /\ isStreaming = t.isStreaming
  /\ readings = t.readings /\ readIndex = t.readIndex /\ total = t.total
  /\ average = t.average /\ previousWeight = t.previousWeight
  /\ calibrationFactor = t.calibrationFactor /\ eeprom = t.eeprom
  /\ stepperPos = t.stepperPos /\ stepperTarget = t.stepperTarget
  /\ stepperSpeed = t.stepperSpeed
  /\ tareBusy = t.tareBusy /\ tareStatus = t.tareStatus
  /\ serialBuf = t.serialBuf /\ out = t.out
  /\ millis = t.millis /\ testState = t.testState
  /\ autoTestMode = t.autoTestMode /\ isLogging = t.isLogging

InitSized(env, size) == \E e \in env.eeproms : StateIs(SetupState(e, size))

InitWith(env) == InitSized(env, SAMPLE_SIZE)

Becomes(t) ==
  /\ currentMode' = t.currentMode /\ motorState' = t.motorState
  /\ homePosition' = t.homePosition /\ targetPosition' = t.targetPosition
  /\ currentTestIndex' = t.currentTestIndex /\ nextAutoTestIndex' = t.nextAutoTestIndex
  /\ emergencyStop' = t.emergencyStop /\ contactDetected' = t.contactDetected
  /\ lastSampledPosition' = t.lastSampledPosition /\ isStreaming' = t.isStreaming
  /\ readings' = t.readings /\ readIndex' = t.readIndex /\ total' = t.total
  /\ average' = t.average /\ previousWeight' = t.previousWeight
  /\ calibrationFactor' = t.calibrationFactor /\ eeprom' = t.eeprom
  /\ stepperPos' = t.stepperPos /\ stepperTarget' = t.stepperTarget
  /\ stepperSpeed' = t.stepperSpeed
  /\ tareBusy' = t.tareBusy /\ tareStatus' = t.tareStatus
  /\ serialBuf' = t.serialBuf /\ out' = t.out
  /\ millis' = t.millis /\ testState' = t.testState
  /\ autoTestMode' = t.autoTestMode /\ isLogging' = t.isLogging

\* One pass of loop() on one of the inputs ins.
Step(ins) == \E t \in {loop(State, in) : in \in ins} : Becomes(t)

\* A pass of loop() with no byte received before the dispatcher.
PassWith(env) == Step(InputsWith(env, State, <<>>))

\* A pass of loop() with bytes received before the dispatcher.
CommandWith(env) ==
  \E r \in RxChoices(env, State) \ {<<>>} :
    Step({in \in InputsWith(env, State, r) : Terminates(State, in)})

\* The controller's environment: every command but the tare, which acts on
\* the load cell alone, one byte of each that the dispatcher treats alike, the
\* first and the last profile's digit; calibration runs in which no tare is
\* left in progress.
CtlCmds == {"1", "8", "Q", "S", "R", "M", "A", "C", "0", "H", "x"}

CtlEnv ==
  [cmds |-> CtlCmds, forces |-> Forces,
   cals |-> {c \in CalRuns({<<"5", NL>>}, {DEFAULT_CAL_FACTOR}) : c.gotT => c.tareDone},
   eeproms |-> {DEFAULT_CAL_FACTOR}]

Init == InitWith(CtlEnv)
Pass == PassWith(CtlEnv)
Command == CommandWith(CtlEnv)
Next == Pass \/ Command

Spec == Init /\ [][Next]_vars

\* Direct calls of enterNormalTestMode with an index that is no profile.
InvalidIndexArgs == {-2, -1, NumTests, NumTests + 1}

EnterNormalTestCall ==
  \E i \in InvalidIndexArgs : Becomes(enterNormalTestMode([State EXCEPT !.out = <<>>], i))

NextCalls == Next \/ EnterNormalTestCall

SpecCalls == Init /\ [][NextCalls]_vars

\* An automatic sequence that is left to run: A is sent only with the planner
\* at home and no emergency stop latched, and while the mode is AUTO_SEQUENCE
\* no byte arrives and no sample is over the overload limit.
AutoCmds == {c \in CtlCmds : c # "A"}

BeforeAutoEnv == [CtlEnv EXCEPT !.cmds = AutoCmds]

QuietEnv == [CtlEnv EXCEPT !.cmds = {}, !.forces = {f \in Forces : f <= OVERLOAD_LIMIT}]

PassBeforeAuto == currentMode # MODE_AUTO_SEQUENCE /\ PassWith(BeforeAutoEnv)

CommandBeforeAuto == currentMode # MODE_AUTO_SEQUENCE /\ CommandWith(BeforeAutoEnv)

StartAuto ==
  /\ currentMode # MODE_AUTO_SEQUENCE
  /\ stepperPos = homePosition
  /\ ~emergencyStop
  /\ Step(InputsWith(CtlEnv, State, <<"A">>))

\* A pass of the running sequence in which the planner's step interval has
\* elapsed, and one in which it has not.
AutoStep ==
  /\ currentMode = MODE_AUTO_SEQUENCE
  /\ Step({in \in InputsWith(QuietEnv, State, <<>>) : motorState # MOTOR_IDLE => in.due})

AutoWait ==
  /\ currentMode = MODE_AUTO_SEQUENCE
  /\ Step({in \in InputsWith(QuietEnv, State, <<>>) : ~in.due})

NextAuto == PassBeforeAuto \/ CommandBeforeAuto \/ StartAuto \/ AutoStep \/ AutoWait

\* loop() is called again and again, and the step interval elapses.
SpecAuto == Init /\ [][NextAuto]_vars /\ WF_vars(AutoStep)

\* An automatic sequence started at home, with every command and every force
\* while it runs.
PassDuringAuto == currentMode = MODE_AUTO_SEQUENCE /\ Pass

CommandDuringAuto == currentMode = MODE_AUTO_SEQUENCE /\ Command

NextAutoCmds ==
  PassBeforeAuto \/ CommandBeforeAuto \/ StartAuto \/ PassDuringAuto \/ CommandDuringAuto

SpecAutoCmds == Init /\ [][NextAutoCmds]_vars

\* A single test that is left to run: the digit 8 is sent only to start the
\* test that is watched, with a planner that generates steps toward the
\* target it is given, and while that test is current no byte arrives and no
\* sample is over the overload limit.
TestRunning == currentMode = MODE_NORMAL_TEST /\ currentTestIndex = NumTests - 1

BeforeTestEnv == [CtlEnv EXCEPT !.cmds = {c \in CtlCmds : c # "8"}]

QuietInputs(s) == {in \in InputsWith(QuietEnv, s, <<>>) : in.late = <<>>}

PassBeforeTest == ~TestRunning /\ PassWith(BeforeTestEnv)

CommandBeforeTest == ~TestRunning /\ CommandWith(BeforeTestEnv)

StartTest ==
  /\ ~TestRunning
  /\ motorState = MOTOR_IDLE
  /\ Step({in \in InputsWith(QuietEnv, State, <<"8">>) :
             LET s1 == afterDispatch(State, in)
             IN /\ in.late = <<>>
                /\ s1.stepperSpeed # 0 \/ stepper_distanceToGo(s1) = 0})

\* The inputs of a pass left alone in which the step interval has elapsed,
\* where the pass looks at it at all.
DueInputs(s) ==
  {in \in QuietInputs(s) : in.due \/ \A i \in QuietInputs(s) : ~i.due}

\* A pass of the running test in which the planner's step interval has
\* elapsed, and one in which it has not.
TestStep == TestRunning /\ Step(DueInputs(State))

TestWait == TestRunning /\ Step({in \in QuietInputs(State) : ~in.due})

NextTest == PassBeforeTest \/ CommandBeforeTest \/ StartTest \/ TestStep \/ TestWait

\* loop() is called again and again, and the step interval elapses.
SpecTest == Init /\ [][NextTest]_vars /\ WF_vars(TestStep)

\* The calibration store: the EEPROM holds any float at power-up (a factor in
\* range, the ends of the range, values next to them, no number), and the
\* operator calibrates, tares, and runs and stops a test.
EepromValues == {CAL_MIN - 1, CAL_MIN, 12000, CAL_MAX, CAL_MAX + 1, NaN}

CalEnv ==
  [cmds |-> {"C", "T", "Q", "1", "S", "R"}, forces |-> Forces,
   cals |-> CalRuns({<<"5", NL>>, <<"0", NL>>}, CalFactors),
   eeproms |-> EepromValues]

InitCal == InitWith(CalEnv)
PassCal == PassWith(CalEnv)
CommandCal == CommandWith(CalEnv)
NextCal == PassCal \/ CommandCal

SpecCal == InitCal /\ [][NextCal]_vars

\* Calls of getUserInputMass on what an operator may type before the timeout;
\* the value returned is recorded as the line MASS.
RECURSIVE SeqsUpTo(_, _)
SeqsUpTo(S, n) ==
  IF n = 0 THEN {<<>>}
  ELSE LET shorter == SeqsUpTo(S, n - 1)
       IN shorter \cup {Append(q, c) : q \in shorter, c \in S}

TypedInputs == SeqsUpTo(MassChars, MaxTyped + 1)

GetUserInputMassCall ==
  \E ty \in TypedInputs :
    LET r == getUserInputMass([State EXCEPT !.out = <<>>, !.serialBuf = ty])
    IN Becomes(Emit(r.s, "MASS", r.mass))

SpecMass == Init /\ [][GetUserInputMassCall]_vars

\* The calibration workflow entered at values of the millisecond clock from
\* its start to its wrap-around, with the operator's T at several delays.
ClockStarts ==
  {U32(h, l) : h \in {0, 1, 32768, 65534, 65535},
               l \in {0, 100, 5536, 5537, 30000, 65535}}

TArrivals == {NoT, 0, 20000, 40000, 59999}

InitClock ==
  \E st \in ClockStarts :
    StateIs([SetupState(DEFAULT_CAL_FACTOR, SAMPLE_SIZE)
               EXCEPT !.currentMode = MODE_CALIBRATION, !.millis = st])

CalibrationCall ==
  /\ millis \in ClockStarts
  /\ \E t \in {handleCalibrationModeAt([State EXCEPT !.out = <<>>], tAt, c) :
                 tAt \in TArrivals, c \in CalRuns({<<"5", NL>>}, {DEFAULT_CAL_FACTOR})} :
       Becomes(t)

SpecClock == InitClock /\ [][CalibrationCall]_vars

\* The force filters on their own.  The window is that of the v5.0 controller
\* (5 readings, getFilteredForce and resetFilters) or that of the v3.0
\* firmware and the scale (10 readings, the moving average followed by the
\* dead-band, and their resetFilters).  Beside the v5.0 filter runs the
\* pipeline of getCurrentForce on the same readings; average and
\* previousWeight are its memory.
FilterRaws == {-3, 0, 3}
ScaleRaws == {0, 3}

InitFilters == InitSized(CtlEnv, SAMPLE_SIZE) \/ InitSized(CtlEnv, SCALE_SAMPLE_SIZE)

FilteredForceCall ==
  /\ WindowSize(State) = SAMPLE_SIZE
  /\ \E rawValue \in FilterRaws :
       LET t == getFilteredForce([State EXCEPT !.out = <<>>], rawValue)
           ref == getCurrentForce(State, rawValue).s
       IN Becomes([t EXCEPT !.average = ref.average,
                            !.previousWeight = ref.previousWeight])

ResetFiltersCall ==
  /\ WindowSize(State) = SAMPLE_SIZE
  /\ Becomes([resetFilters([State EXCEPT !.out = <<>>])
                EXCEPT !.average = 0, !.previousWeight = 0])

FilteredValueCall ==
  /\ WindowSize(State) = SCALE_SAMPLE_SIZE
  /\ \E rawValue \in ScaleRaws :
       LET fv == filteredValue([State EXCEPT !.out = <<>>], rawValue)
       IN Becomes(Emit(fv.s, "WEIGHT", fv.val))

ScaleResetFiltersCall ==
  /\ WindowSize(State) = SCALE_SAMPLE_SIZE
  /\ Becomes(scale_resetFilters([State EXCEPT !.out = <<>>]))

NextFilters ==
  FilteredForceCall \/ ResetFiltersCall \/ FilteredValueCall \/ ScaleResetFiltersCall

SpecFilters == InitFilters /\ [][NextFilters]_vars

\* Bursts: two bytes are in the serial buffer when the dispatcher reads it.
\* The number of bytes received is noted at the head of out.
BurstSecond == {"Q", "8"}

BurstEnv == [CtlEnv EXCEPT !.cmds = {"1", "Q", "S", "R", "M"}]

Bursts(s) ==
  IF Len(s.serialBuf) > 0 THEN {}
  ELSE {<<c, d>> : c \in BurstEnv.cmds, d \in BurstSecond}

CommandBurst ==
  \E r \in Bursts(State) :
    \E t \in {loop(State, in) :
                in \in {i \in InputsWith(BurstEnv, State, r) : Terminates(State, i)}} :
      Becomes([t EXCEPT !.out = <<Event("RX", Len(r))>> \o @])

PassBurst == PassWith(BurstEnv)
CommandSingle == CommandWith(BurstEnv)
NextBurst == PassBurst \/ CommandSingle \/ CommandBurst

SpecBurst == Init /\ [][NextBurst]_vars

\* ------------------------------------------------------------------ claims
\* The inputs of a pass from state s, over every byte an operator may send.
FullEnv ==
  [cmds |-> Cmds, forces |-> Forces,
   cals |-> CalRuns({<<>>, <<"5", NL>>, <<"0", NL>>, <<"-", "5", NL>>}, CalFactors),
   eeproms |-> {DEFAULT_CAL_FACTOR}]

AnyRx == {<<>>} \cup {<<c>> : c \in Cmds}

StepInputs(s) ==
  UNION {{in \in InputsWith(FullEnv, s, r) : Terminates(s, in)} : r \in AnyRx}

Logs(o, e) == \E i \in 1..Len(o) : o[i].ev = e

PassThrough == {"S", "s", "Q", "q", "R", "r"}

C2_OverloadLatchesThenHalts ==
  /\ \A in \in StepInputs(State) :
       LET s1 == afterDispatch(State, in)
           t == loop(State, in)
       IN (/\ ~s1.emergencyStop
           /\ s1.currentMode \in {MODE_NORMAL_TEST, MODE_AUTO_SEQUENCE}
           /\ s1.motorState = MOTOR_MOVING_DOWN
           /\ takesSample(s1, in.due)
           /\ in.force > OVERLOAD_LIMIT)
          => /\ t.emergencyStop
             /\ t.motorState = MOTOR_MOVING_DOWN
             /\ t.stepperPos = stepper_run(s1, in.due).stepperPos
  /\ (emergencyStop /\ motorState = MOTOR_MOVING_DOWN) =>
       \A in \in StepInputs(State) :
         LET t == loop(State, in)
         IN t.stepperSpeed = 0 /\ t.stepperPos = stepperPos

\* The overload has just been latched: the planner still has its speed.
C2_Witness ==
  emergencyStop /\ motorState = MOTOR_MOVING_DOWN /\ stepperSpeed # 0 /\ stepperPos > homePosition

\* C2 as stated: the flag is set and the planner is halted within the pass
\* that takes the sample.
C2_Original ==
  \A in \in StepInputs(State) :
    LET s1 == afterDispatch(State, in)
        t == loop(State, in)
    IN (/\ ~s1.emergencyStop
        /\ s1.currentMode \in {MODE_NORMAL_TEST, MODE_AUTO_SEQUENCE}
        /\ s1.motorState = MOTOR_MOVING_DOWN
        /\ takesSample(s1, in.due)
        /\ in.force > OVERLOAD_LIMIT)
       => t.emergencyStop /\ t.stepperSpeed = 0

\* C3: once emergencyStop is true, a pass leaves it true unless the byte that
\* handleEmergencyStop reads is the reset R or r; no command of the dispatcher
\* and no mode handler clears it.
C3_LatchPersists ==
  emergencyStop =>
    \A in \in StepInputs(State) :
      LET s1 == afterDispatch(State, in)
          t == loop(State, in)
      IN /\ s1.emergencyStop
         /\ ~t.emergencyStop => (Len(s1.serialBuf) > 0 /\ IsReset(Head(s1.serialBuf)))

\* The latch is still set after the exit command took the mode to IDLE.
C3_Witness ==
  emergencyStop /\ currentMode = MODE_IDLE /\ currentTestIndex >= 0

\* C4 as stated: while the latch is set a command other than R changes neither
\* currentMode nor motorState nor homePosition.
C4_Original ==
  emergencyStop =>
    \A in \in StepInputs(State) :
      (Len(in.rx) > 0 /\ ~IsReset(Head(in.rx)) /\ in.late = <<>>) =>
        LET t == loop(State, in)
        IN /\ t.currentMode = currentMode
           /\ t.motorState = motorState
           /\ t.homePosition = homePosition

\* C5 as stated: while the latch is set the planner's position does not change.
C5_Original ==
  emergencyStop =>
    \A in \in StepInputs(State) : loop(State, in).stepperPos = stepperPos

\* C6 as stated: with the latch set, a pass that finds R pending clears the
\* latch and makes motorState MOTOR_IDLE, leaving currentMode.
C6_Original ==
  emergencyStop =>
    \A in \in StepInputs(State) :
      (Len(in.rx) > 0 /\ IsReset(Head(in.rx))) =>
        LET t == loop(State, in)
        IN /\ ~t.emergencyStop
           /\ t.motorState = MOTOR_IDLE
           /\ t.currentMode = currentMode

\* What starting profile d's test from state s does: the state t at the
\* emergency-stop check.
TestStarted(s, t, d) ==
  /\ t.currentMode = MODE_NORMAL_TEST
  /\ t.motorState = MOTOR_MOVING_DOWN
  /\ t.currentTestIndex = DigitIndex(d)
  /\ t.targetPosition = s.homePosition + testDistance
  /\ t.stepperTarget = t.targetPosition
  /\ t.isStreaming
  /\ Logs(t.out, "START_STREAM")

\* C7 (as amended): in a mode other than CALIBRATION, for every digit 1..8
\* received while motorState is MOTOR_IDLE, the dispatcher sets currentMode =
\* MODE_NORMAL_TEST, motorState = MOTOR_MOVING_DOWN, currentTestIndex = digit - 1,
\* targetPosition = homePosition + testDistance, commands the planner to that
\* target and opens a streaming session.
C7_DigitStartsTest ==
  (motorState = MOTOR_IDLE /\ currentMode # MODE_CALIBRATION) =>
    \A in \in StepInputs(State) :
      (Len(in.rx) > 0 /\ Head(in.rx) \in DigitCmds) =>
        TestStarted(State, afterDispatch(State, in), Head(in.rx))

\* A pass has started a test from a home that is not 0.
C7_Witness ==
  /\ currentMode = MODE_NORMAL_TEST
  /\ motorState = MOTOR_MOVING_DOWN
  /\ Logs(out, "TEST")
  /\ isStreaming
  /\ homePosition > 0
  /\ stepperTarget = homePosition + testDistance

\* C7 as stated: the same from whatever mode is current.
C7_Original ==
  motorState = MOTOR_IDLE =>
    \A in \in StepInputs(State) :
      (Len(in.rx) > 0 /\ Head(in.rx) \in DigitCmds) =>
        TestStarted(State, afterDispatch(State, in), Head(in.rx))

\* C8: for an index outside 0..7, enterNormalTestMode emits the error and
\* changes nothing else.
C8_InvalidIndexRejected ==
  \A i \in InvalidIndexArgs :
    enterNormalTestMode(State, i) = [State EXCEPT !.out = Append(@, Event("INVALID_INDEX", i))]

\* enterNormalTestMode has been called with 8 while a test was moving down.
C8_Witness ==
  /\ Logs(out, "INVALID_INDEX")
  /\ out[1].arg = NumTests
  /\ motorState = MOTOR_MOVING_DOWN
  /\ isStreaming

\* In a sequence left to run, a pass that starts a profile's test.
StartsProfile == Logs(out', "AUTO_TEST")

\* C9: a sequence started by A with the planner at home P, with no further
\* command and no overload, starts the profiles 0, 1, ..., 7 in that order,
\* each once (the first is 0, each next one is the one before plus 1, and the
\* mode is left only after 7), is at P whenever motorState is MOTOR_IDLE, and
\* eventually ends with currentMode = MODE_IDLE, motorState = MOTOR_IDLE and
\* the planner at P.
C9_AutoSequence ==
  /\ [][(currentMode # MODE_AUTO_SEQUENCE /\ currentMode' = MODE_AUTO_SEQUENCE) =>
          /\ StartsProfile
          /\ currentTestIndex' = 0
          /\ stepperPos' = homePosition']_vars
  /\ [][(currentMode = MODE_AUTO_SEQUENCE /\ StartsProfile) =>
          /\ motorState = MOTOR_IDLE
          /\ currentTestIndex' = currentTestIndex + 1
          /\ currentTestIndex' < NumTests
          /\ stepperPos' = homePosition']_vars
  /\ [][currentMode = MODE_AUTO_SEQUENCE =>
          /\ homePosition' = homePosition
          /\ currentTestIndex' # currentTestIndex => StartsProfile
          /\ currentMode' # MODE_AUTO_SEQUENCE =>
               /\ currentTestIndex = NumTests - 1
               /\ currentMode' = MODE_IDLE
               /\ motorState' = MOTOR_IDLE
               /\ stepperPos' = homePosition]_vars
  /\ []((currentMode = MODE_AUTO_SEQUENCE /\ motorState = MOTOR_IDLE) =>
          stepperPos = homePosition)
  /\ (currentMode = MODE_AUTO_SEQUENCE) ~>
       (currentMode = MODE_IDLE /\ motorState = MOTOR_IDLE /\ stepperPos = homePosition)

\* The sequence has run to its end: the last profile was 7 and the planner is
\* back at a home that is not 0.
C9_Witness ==
  /\ Logs(out, "AUTO_COMPLETE")
  /\ currentMode = MODE_IDLE
  /\ motorState = MOTOR_IDLE
  /\ currentTestIndex = NumTests - 1
  /\ homePosition > 0
  /\ stepperPos = homePosition

\* C10 as stated: whenever setupNextAutoTest starts a profile's test, the
\* planner is at homePosition.
C10_Original ==
  Logs(out, "AUTO_TEST") => stepperPos = homePosition

\* The stream markers of one pass, read from o[i] on with a session open or
\* not: START_STREAM only while none is open, END_STREAM and a sample only
\* while one is; open is whether a session is open after the last of them.
RECURSIVE Framing(_, _, _)
Framing(o, i, open) ==
  IF i > Len(o) THEN [ok |-> TRUE, open |-> open]
  ELSE CASE o[i].ev = "START_STREAM" ->
              IF open THEN [ok |-> FALSE, open |-> open] ELSE Framing(o, i + 1, TRUE)
         [] o[i].ev = "END_STREAM" ->
              IF open THEN Framing(o, i + 1, FALSE) ELSE [ok |-> FALSE, open |-> open]
         [] o[i].ev = "SAMPLE" ->
              IF open THEN Framing(o, i + 1, open) ELSE [ok |-> FALSE, open |-> open]
         [] OTHER -> Framing(o, i + 1, open)

TestBanners == {"TEST", "AUTO_TEST"}

\* C11: the markers alternate, beginning with START_STREAM: the streaming flag
\* is false at power-up and after every pass it is exactly whether the markers
\* printed so far leave a session open, no marker or sample being out of
\* place; a START_STREAM is printed exactly when a test is started, right
\* after its banner; and a session is open between passes only while a test
\* is moving down, so a test that has completed, was stopped or has had its
\* emergency stop handled has printed its END_STREAM.
C11_StreamFraming ==
  /\ isStreaming => (motorState = MOTOR_MOVING_DOWN
                     /\ currentMode \in {MODE_NORMAL_TEST, MODE_AUTO_SEQUENCE})
  /\ (emergencyStop /\ isStreaming) =>
       \A in \in StepInputs(State) :
         LET t == loop(State, in)
         IN ~t.isStreaming /\ Len(SelectSeq(t.out, LAMBDA e : e.ev = "END_STREAM")) = 1
  /\ \A in \in StepInputs(State) :
       LET t == loop(State, in)
           f == Framing(t.out, 1, isStreaming)
       IN /\ f.ok
          /\ f.open = t.isStreaming
          /\ \A i \in 1..Len(t.out) :
               /\ t.out[i].ev \in TestBanners =>
                    (i < Len(t.out) /\ t.out[i + 1].ev = "START_STREAM")
               /\ t.out[i].ev = "START_STREAM" =>
                    (i > 1 /\ t.out[i - 1].ev \in TestBanners)

\* A session with a sample in it has just been closed at the end of the
\* stroke.
C11_Witness ==
  /\ Logs(out, "END_STREAM")
  /\ ~isStreaming
  /\ motorState = MOTOR_RETURNING_HOME
  /\ lastSampledPosition > homePosition

Samples(o) == SelectSeq(o, LAMBDA e : e.ev = "SAMPLE")

\* C12: a pass emits at most one sample; its position is the planner's, it is
\* at least POSITION_SAMPLE_INTERVAL above the position sampled before it in
\* the session (lastSampledPosition), which it replaces; between samples of a
\* session that position is kept, and at the session's start it is the
\* planner's position.
C12_SampleSpacing ==
  \A in \in StepInputs(State) :
    LET s1 == afterDispatch(State, in)
        t == loop(State, in)
        smp == Samples(t.out)
    IN /\ Len(smp) <= 1
       /\ Len(smp) = 1 =>
            /\ s1.isStreaming
            /\ smp[1].arg - s1.lastSampledPosition >= POSITION_SAMPLE_INTERVAL
            /\ smp[1].arg = t.stepperPos
            /\ t.lastSampledPosition = smp[1].arg
       /\ (s1.isStreaming /\ t.isStreaming /\ ~t.emergencyStop /\ Len(smp) = 0) =>
            t.lastSampledPosition = s1.lastSampledPosition
       /\ Logs(s1.out, "START_STREAM") => s1.lastSampledPosition = s1.stepperPos
       /\ (Logs(t.out, "START_STREAM") /\ ~Logs(s1.out, "START_STREAM")) =>
            t.lastSampledPosition = t.stepperPos

\* The second sample of a session, taken as the stroke ends, from a home
\* that is not 0.
C12_Witness ==
  /\ Logs(out, "SAMPLE")
  /\ Logs(out, "END_STREAM")
  /\ motorState = MOTOR_RETURNING_HOME
  /\ homePosition > 0
  /\ stepperPos = lastSampledPosition
  /\ stepperPos >= homePosition + 2 * POSITION_SAMPLE_INTERVAL

\* C13: stopStreaming with no session active changes nothing and prints
\* nothing; with a session active it clears the flag and prints one
\* END_STREAM, nothing else; two calls in a row do what one does.
C13_StopStreamingIdempotent ==
  LET s == [State EXCEPT !.out = <<>>]
      t == stopStreaming(s)
  IN /\ ~s.isStreaming => t = s
     /\ s.isStreaming =>
          t = [s EXCEPT !.isStreaming = FALSE, !.out = <<Event("END_STREAM", 0)>>]
     /\ stopStreaming(t) = t

\* A stop command with the emergency stop latched and a session open: the
\* dispatcher and then handleEmergencyStop have called stopStreaming in one
\* pass, and one END_STREAM was printed.
C13_Witness ==
  /\ emergencyStop
  /\ motorState = MOTOR_IDLE
  /\ currentMode = MODE_NORMAL_TEST
  /\ ~isStreaming
  /\ Len(SelectSeq(out, LAMBDA e : e.ev = "END_STREAM")) = 1

\* C14 as stated: in whatever mode and motor state a pass receives Q or q,
\* after it currentMode = MODE_IDLE, motorState = MOTOR_IDLE and no streaming
\* session is active.
C14_Original ==
  \A in \in StepInputs(State) :
    (Len(in.rx) > 0 /\ Head(in.rx) \in {"Q", "q"}) =>
      LET t == loop(State, in)
      IN /\ t.currentMode = MODE_IDLE
         /\ t.motorState = MOTOR_IDLE
         /\ ~t.isStreaming

\* C15: between passes, motorState # MOTOR_IDLE only in MODE_NORMAL_TEST or
\* MODE_AUTO_SEQUENCE; in MODE_IDLE, MODE_LIVE_MONITOR and MODE_CALIBRATION
\* motorState is MOTOR_IDLE.
C15_MotorActiveOnlyInTestModes ==
  /\ motorState # MOTOR_IDLE => currentMode \in {MODE_NORMAL_TEST, MODE_AUTO_SEQUENCE}
  /\ currentMode \in {MODE_IDLE, MODE_LIVE_MONITOR, MODE_CALIBRATION} => motorState = MOTOR_IDLE

\* The last profile's test with its overload latched: the motor state is
\* still active, away from home.
C15_Witness ==
  /\ emergencyStop
  /\ motorState = MOTOR_MOVING_DOWN
  /\ currentMode = MODE_NORMAL_TEST
  /\ currentTestIndex = NumTests - 1
  /\ stepperPos > homePosition

\* C16 as stated, in what it says of one pass: while a started test is left
\* to run with its motor state active, a pass in which the step interval has
\* elapsed advances the planner or leaves the motor state (the passes of a
\* test left alone are determined by the state, so a pass that does neither
\* is repeated for ever and the test never reaches MODE_IDLE).
C16_Original ==
  (TestRunning /\ motorState # MOTOR_IDLE) =>
    \A in \in DueInputs(State) :
      LET t == loop(State, in)
      IN t.stepperPos # stepperPos \/ t.motorState # motorState

\* C17 as stated: a pass that receives S or s while a test is in motion, in
\* MODE_NORMAL_TEST or MODE_AUTO_SEQUENCE, ends with motorState = MOTOR_IDLE,
\* does not advance the planner and starts no test.
C17_Original ==
  (motorState # MOTOR_IDLE /\ currentMode \in {MODE_NORMAL_TEST, MODE_AUTO_SEQUENCE}) =>
    \A in \in StepInputs(State) :
      (Len(in.rx) > 0 /\ Head(in.rx) \in {"S", "s"}) =>
        LET t == loop(State, in)
        IN /\ t.motorState = MOTOR_IDLE
           /\ t.stepperPos = stepperPos
           /\ \A i \in 1..Len(t.out) : t.out[i].ev \notin TestBanners

\* A run of the workflow that times out or whose mass input is rejected.
Aborts(cal) ==
  \/ ~cal.gotT
  \/ ~cal.tareDone
  \/ readMass(cal.typed, <<>>).mass < 0

\* C18: a run of handleCalibrationMode in which no T arrives within 60 s, or
\* the tare does not complete within 5 s, or no valid mass is entered, ends
\* with currentMode = MODE_IDLE and leaves calibrationFactor and the EEPROM's
\* value as they were.
C18_AbortKeepsCalibration ==
  \A in \in StepInputs(State) :
    LET s1 == afterDispatch(State, in)
        t == loop(State, in)
    IN (s1.currentMode = MODE_CALIBRATION /\ ~s1.emergencyStop /\ Aborts(in.cal)) =>
         /\ t.currentMode = MODE_IDLE
         /\ t.motorState = MOTOR_IDLE
         /\ t.calibrationFactor = calibrationFactor
         /\ t.eeprom = eeprom
         /\ Logs(t.out, "CAL_ABORT")
         /\ ~Logs(t.out, "CAL_SAVED")

\* A run has been aborted after the tare command, with a factor in use that
\* is not the default.
C18_Witness ==
  /\ Logs(out, "CAL_ABORT")
  /\ out[1].arg = 2
  /\ currentMode = MODE_IDLE
  /\ calibrationFactor = 12000
  /\ eeprom = 12000

\* A line's content that writes a positive number: digits with at most one
\* dot, one digit at least not 0.
PositiveNumber(str) ==
  /\ \A i \in 1..Len(str) : isDigit(str[i]) \/ str[i] = "."
  /\ Cardinality({i \in 1..Len(str) : str[i] = "."}) <= 1
  /\ \E i \in 1..Len(str) : isDigit(str[i]) /\ str[i] # "0"

\* The lines of at most MaxTyped characters and their newline.
TypedLines ==
  {ty \in TypedInputs :
     /\ Len(ty) >= 2
     /\ ty[Len(ty)] = NL
     /\ \A i \in 1..(Len(ty) - 1) : ty[i] # NL}

\* C19 as stated: for every newline-terminated line that is no positive
\* number, getUserInputMass returns the failure value -1.
C19_Original ==
  \A ty \in TypedLines :
    ~PositiveNumber(SubSeq(ty, 1, Len(ty) - 1)) =>
      getUserInputMass([State EXCEPT !.serialBuf = ty]).mass = -1

\* C20 as stated: whatever the EEPROM holds, loadCalibrationFromEEPROM leaves
\* calibrationFactor equal to that value if it is a number in 5000..50000 and
\* to the default otherwise, hence in 5000..50000.
C20_Original ==
  LET v == eeprom
      f == loadCalibrationFromEEPROM(State).calibrationFactor
  IN /\ f = (IF v # NaN /\ CAL_MIN <= v /\ v <= CAL_MAX THEN v ELSE DEFAULT_CAL_FACTOR)
     /\ f # NaN /\ CAL_MIN <= f /\ f <= CAL_MAX

Converged(v) ==
  /\ WindowSize(State) = SCALE_SAMPLE_SIZE
  /\ \A i \in DOMAIN readings : readings[i] = v
  /\ Len(out) = 1 /\ out[1].ev = "WEIGHT"

\* C23 as stated: once the same raw value v has been fed SAMPLE_SIZE times or
\* more, the moving average is v and the dead-band returns exactly v.
C23_Original ==
  \A v \in ScaleRaws :
    Converged(v) =>
      /\ average = v * SCALE_SAMPLE_SIZE
      /\ out[1].arg = v * SCALE_SAMPLE_SIZE

\* C23 (as amended): once the same raw value v has been fed SAMPLE_SIZE times
\* or more, the moving average is v, and the dead-band returns the accepted
\* value previousWeight, which is less than NOISE_FILTER away from v, on that
\* read and on every further read of v.
C23_DeadBandSettles ==
  \A v \in ScaleRaws :
    Converged(v) =>
      LET again == filteredValue(State, v)
      IN /\ average = v * SCALE_SAMPLE_SIZE
         /\ out[1].arg = previousWeight
         /\ Abs(out[1].arg - v * SCALE_SAMPLE_SIZE) < NOISE_FILTER * SCALE_SAMPLE_SIZE
         /\ again.val = out[1].arg
         /\ again.s.previousWeight = previousWeight
         /\ again.s.average = average

\* The average has converged to 0.3 g while the dead-band holds 0.24 g.
C23_Witness ==
  /\ Converged(3)
  /\ average = 30
  /\ out[1].arg = 24

\* C30 as stated: on every sequence of raw samples getFilteredForce returns
\* what the pipeline of getCurrentForce returns on the same window: moving
\* average, dead-band, conversion by g/1000, negative results clamped to 0.
C30_Original ==
  WindowSize(State) = SAMPLE_SIZE =>
    \A rawValue \in FilterRaws :
      force_N(getFilteredForce(State, rawValue).total) = getCurrentForce(State, rawValue).val

\* C24 as stated: while currentMode is MODE_LIVE_MONITOR no pass moves the
\* planner, whatever command it receives: the position is unchanged by the
\* dispatcher, and by the whole pass if the pass stays in LIVE_MONITOR.
C24_Original ==
  currentMode = MODE_LIVE_MONITOR =>
    \A in \in StepInputs(State) :
      LET s1 == afterDispatch(State, in)
          t == loop(State, in)
      IN /\ s1.stepperPos = stepperPos
         /\ t.currentMode = MODE_LIVE_MONITOR => t.stepperPos = stepperPos

\* C25: in a pass in which emergencyStop is set when the safety check runs,
\* no mode handler runs: the planner's position, the mode, the auto-sequence
\* cursor, the test's bookkeeping and the tare flag are as the dispatcher left
\* them, motorState changes only by the reset, which makes it MOTOR_IDLE, and
\* no sample, contact or test banner is emitted.
C25_StopSkipsModeHandler ==
  \A in \in StepInputs(State) :
    LET s1 == afterDispatch(State, in)
        t == loop(State, in)
    IN s1.emergencyStop =>
         /\ t.stepperPos = s1.stepperPos
         /\ t.currentMode = s1.currentMode
         /\ t.motorState \in {s1.motorState, MOTOR_IDLE}
         /\ (t.motorState # s1.motorState => ~t.emergencyStop)
         /\ t.nextAutoTestIndex = s1.nextAutoTestIndex
         /\ t.currentTestIndex = s1.currentTestIndex
         /\ t.contactDetected = s1.contactDetected
         /\ t.lastSampledPosition = s1.lastSampledPosition
         /\ t.targetPosition = s1.targetPosition
         /\ t.homePosition = s1.homePosition
         /\ t.tareStatus = s1.tareStatus
         /\ t.calibrationFactor = s1.calibrationFactor
         /\ \A e \in {"SAMPLE", "CONTACT", "TEST", "AUTO_TEST", "AUTO_COMPLETE",
                      "CAL_ABORT", "CAL_SAVED"} :
              Logs(t.out, e) => Logs(s1.out, e)

\* A pass has run under the latch in the middle of an automatic sequence's
\* stroke: the planner has been halted short of its target and motorState is
\* still MOTOR_MOVING_DOWN.
C25_Witness ==
  /\ emergencyStop
  /\ currentMode = MODE_AUTO_SEQUENCE
  /\ motorState = MOTOR_MOVING_DOWN
  /\ stepperSpeed = 0
  /\ stepperTarget # stepperPos
  /\ ~isStreaming

\* What may follow the first byte in the buffer.
BurstTails == {<<"Q">>, <<"R">>, <<"8">>, <<"S", "Q">>, <<"H", "0">>, <<"A", "1", "M">>}

\* C26: when the dispatcher runs with k >= 1 bytes in the buffer, it leaves
\* the state that it leaves when the first byte alone is in the buffer, and
\* an empty buffer: the other k - 1 bytes have no effect in this pass and are
\* not there in a later one.
C26_OneCommandPerTick ==
  \A c \in Cmds, extra \in BurstTails, stopSteps \in 1..MaxStopSteps :
    LET one == handleSerialCommand([State EXCEPT !.serialBuf = <<c>>], stopSteps)
        more == handleSerialCommand([State EXCEPT !.serialBuf = <<c>> \o extra], stopSteps)
    IN /\ more = one
       /\ more.serialBuf = <<>>

\* A burst of two bytes has been received whose first byte, M, took effect
\* and whose second byte, Q or 8, which would have left LIVE_MONITOR, did not.
C26_Witness ==
  /\ Len(out) > 0 /\ out[1] = Event("RX", 2)
  /\ currentMode = MODE_LIVE_MONITOR
  /\ serialBuf = <<>>

\* C27 as stated: whenever handleNormalTestMode runs, motorState is
\* MOTOR_MOVING_DOWN or MOTOR_RETURNING_HOME, and no pass ends in
\* MODE_NORMAL_TEST with an idle motor.
C27_Original ==
  \A in \in StepInputs(State) :
    LET s1 == afterDispatch(State, in)
        t == loop(State, in)
    IN /\ (s1.currentMode = MODE_NORMAL_TEST /\ ~s1.emergencyStop) =>
            s1.motorState \in {MOTOR_MOVING_DOWN, MOTOR_RETURNING_HOME}
       /\ (t.currentMode = MODE_NORMAL_TEST /\ ~t.emergencyStop) =>
            t.motorState # MOTOR_IDLE

\* The events e in the lines o.
Count(o, e) == Cardinality({i \in 1..Len(o) : o[i].ev = e})

\* C28: a pass that starts a test (a single test or a profile of the
\* automatic sequence) leaves contactDetected false; the contact is logged
\* exactly in a pass whose sample is over CONTACT_THRESHOLD while
\* contactDetected is false, once, and sets contactDetected, which then stays
\* set until a test starts: one log per test, at the first crossing.
C28_ContactLoggedOnce ==
  \A in \in StepInputs(State) :
    LET s1 == afterDispatch(State, in)
        t == loop(State, in)
        starts == Logs(t.out, "TEST") \/ Logs(t.out, "AUTO_TEST")
        crossing == /\ ~s1.emergencyStop
                    /\ s1.currentMode \in {MODE_NORMAL_TEST, MODE_AUTO_SEQUENCE}
                    /\ s1.motorState = MOTOR_MOVING_DOWN
                    /\ takesSample(s1, in.due)
                    /\ in.force > CONTACT_THRESHOLD
    IN /\ starts => ~t.contactDetected /\ ~Logs(t.out, "CONTACT")
       /\ Logs(t.out, "CONTACT") <=> (crossing /\ ~s1.contactDetected)
       /\ Count(t.out, "CONTACT") <= 1
       /\ Logs(t.out, "CONTACT") => t.contactDetected
       /\ ~starts => (t.contactDetected <=> (contactDetected \/ Logs(t.out, "CONTACT")))

\* The last sample of a stroke has been streamed after the contact was
\* detected, and no second contact line came with it.
C28_Witness ==
  /\ contactDetected
  /\ motorState = MOTOR_RETURNING_HOME
  /\ Logs(out, "SAMPLE")
  /\ ~Logs(out, "CONTACT")
  /\ lastSampledPosition = homePosition + testDistance

TableIndex == 0..(NumTests - 1)

\* C29: every read of the profile table uses an index in 0..7: the index that
\* enterNormalTestMode and setupNextAutoTest read with (the one their banner
\* shows), currentTestIndex whenever a sample is streamed or streaming is on,
\* and nextAutoTestIndex whenever the automatic sequence is about to set up a
\* test.
C29_TableIndexInRange ==
  /\ \A i \in 1..Len(out) : out[i].ev \in TestBanners => out[i].arg \in TableIndex
  /\ Logs(out, "SAMPLE") => currentTestIndex \in TableIndex
  /\ isStreaming => currentTestIndex \in TableIndex
  /\ motorState = MOTOR_MOVING_DOWN => currentTestIndex \in TableIndex
  /\ (currentMode = MODE_AUTO_SEQUENCE /\ motorState = MOTOR_IDLE /\ nextAutoTestIndex < NumTests)
       => nextAutoTestIndex \in TableIndex

\* A sample of the last profile has been streamed in the automatic sequence.
C29_Witness ==
  /\ currentMode = MODE_AUTO_SEQUENCE
  /\ Logs(out, "SAMPLE")
  /\ currentTestIndex = NumTests - 1
  /\ nextAutoTestIndex = NumTests

\* C31 as stated: a run of handleCalibrationMode in which T arrives before the
\* 60 s timeout, the tare completes within 5 s and a positive mass is typed
\* does not abort: it assigns the new factor to calibrationFactor, stores it
\* and ends with currentMode = MODE_IDLE.
C31_Original ==
  \A in \in StepInputs(State) :
    LET s1 == afterDispatch(State, in)
        t == loop(State, in)
    IN (/\ s1.currentMode = MODE_CALIBRATION /\ ~s1.emergencyStop
        /\ in.cal.gotT /\ in.cal.tareDone
        /\ readMass(in.cal.typed, <<>>).mass > 0) =>
         /\ ~Logs(t.out, "CAL_ABORT")
         /\ Logs(t.out, "CAL_SAVED")
         /\ t.calibrationFactor = in.cal.factor
         /\ t.eeprom = in.cal.factor
         /\ t.currentMode = MODE_IDLE

\* C32: no pass changes calibrationFactor or the EEPROM's value, whatever the
\* command, the mode handler, the tare or the emergency-stop path it takes,
\* unless it is a calibration that ends with the factor saved, and then the
\* two are equal.
C32_FactorLifecycle ==
  \A in \in StepInputs(State) :
    LET t == loop(State, in)
    IN /\ (t.calibrationFactor # calibrationFactor \/ t.eeprom # eeprom) =>
            Logs(t.out, "CAL_SAVED")
       /\ Logs(t.out, "CAL_SAVED") => t.eeprom = t.calibrationFactor

\* An overload in a single test has been latched and reset, off the home
\* position, with a factor in use that is not the default: commands, a mode
\* handler and the emergency-stop path have run and the factor is as loaded.
C32_Witness ==
  /\ calibrationFactor = 12000 /\ eeprom = 12000
  /\ ~tareBusy /\ ~tareStatus
  /\ currentMode = MODE_NORMAL_TEST /\ motorState = MOTOR_IDLE
  /\ ~emergencyStop /\ stepperSpeed = 0 /\ stepperPos # homePosition

\* C36: between passes an active streaming session implies motorState =
\* MOTOR_MOVING_DOWN in a test mode, and every session that a pass ends, one
\* that was active or one that it started itself, is ended with an END_STREAM
\* line: no session is closed by a direct clear of the flag.
C36_StreamingImpliesMovingDown ==
  /\ isStreaming =>
       /\ motorState = MOTOR_MOVING_DOWN
       /\ currentMode \in {MODE_NORMAL_TEST, MODE_AUTO_SEQUENCE}
  /\ \A in \in StepInputs(State) :
       LET t == loop(State, in)
       IN /\ (isStreaming /\ ~t.isStreaming) => Logs(t.out, "END_STREAM")
          /\ Count(t.out, "END_STREAM") + (IF t.isStreaming THEN 1 ELSE 0)
               = Count(t.out, "START_STREAM") + (IF isStreaming THEN 1 ELSE 0)
          /\ t.isStreaming => t.motorState = MOTOR_MOVING_DOWN

\* A test has been left by Q in mid-stroke: the session was closed with its
\* END_STREAM line.
C36_Witness ==
  /\ currentMode = MODE_IDLE
  /\ ~isStreaming
  /\ Logs(out, "END_STREAM")
  /\ stepperPos # homePosition
  /\ stepperPos # targetPosition

\* C37: in every reachable state the planner's position is between
\* homePosition and homePosition + testDistance.
C37_PositionWithinStroke ==
  /\ homePosition <= stepperPos
  /\ stepperPos <= homePosition + testDistance

\* The home position has been set away from the power-up position and a
\* stroke from it has reached its far end.
C37_Witness ==
  /\ homePosition > 0
  /\ stepperPos = homePosition + testDistance
  /\ motorState = MOTOR_RETURNING_HOME

\* C38 as stated: while currentMode is MODE_AUTO_SEQUENCE, a command other
\* than Q, S and R leaves currentMode, homePosition and nextAutoTestIndex as
\* they are, in the pass after a return-home has completed as in any other.
C38_Original ==
  currentMode = MODE_AUTO_SEQUENCE =>
    \A in \in StepInputs(State) :
      (Len(in.rx) = 1 /\ Head(in.rx) \notin PassThrough) =>
        LET s1 == afterDispatch(State, in)
        IN /\ s1.currentMode = MODE_AUTO_SEQUENCE
           /\ s1.homePosition = homePosition
           /\ s1.nextAutoTestIndex = nextAutoTestIndex

\* C39 as stated: after a pass in which R clears the emergency stop, a pass
\* in which no command arrives leaves motorState = MOTOR_IDLE and leaves the
\* planner's target and position as they are.
C39_Original ==
  emergencyStop =>
    \A in \in StepInputs(State) :
      LET t == loop(State, in)
      IN ~t.emergencyStop =>
           \A quiet \in InputsWith(FullEnv, t, <<>>) :
             LET u == loop(t, quiet)
             IN /\ u.motorState = MOTOR_IDLE
                /\ u.stepperTarget = t.stepperTarget
                /\ u.stepperPos = t.stepperPos

\* C40 as stated: whatever the 32-bit millisecond clock reads when the wait
\* for the operator's T begins, a wait in which no T is read ends no earlier
\* than 60000 ms after it began.
C40_Original ==
  \A tAt \in TArrivals :
    LET w == waitForTare(millis, tAt)
    IN ~w.taredOK => w.elapsed >= TARE_TIMEOUT_MS

\* ------------------------------------------------------- the v3.0 firmware
\* The time-triggered firmware: one test at a time, testState in place of
\* modes, the force read in every pass of a stroke, a data point streamed
\* every STREAM_INTERVAL.
v3_startStreaming(s) == Emit([s EXCEPT !.isStreaming = TRUE], "START_STREAM", 0)

v3_startTest(s, testIndex) ==
  IF testIndex < 0 \/ testIndex >= NumTests THEN s
  ELSE LET s1 == Emit([s EXCEPT !.currentTestIndex = testIndex], "TEST", testIndex)
           s2 == [s1 EXCEPT !.contactDetected = FALSE,
                            !.targetPosition = s1.homePosition + testDistance]
           s3 == v3_startStreaming(stepper_moveTo(s2, s2.targetPosition))
       IN [s3 EXCEPT !.testState = TEST_MOVING_DOWN]

v3_handleMovingDown(s, due, currentForce) ==
  LET s1 == stepper_run(s, due)
      s2 == IF ~s1.contactDetected /\ currentForce > CONTACT_THRESHOLD
            THEN Emit([s1 EXCEPT !.contactDetected = TRUE], "CONTACT", s1.stepperPos)
            ELSE s1
  IN IF currentForce > OVERLOAD_LIMIT
     THEN [s2 EXCEPT !.emergencyStop = TRUE]
     ELSE IF stepper_distanceToGo(s2) = 0
          THEN LET s3 == [stopStreaming(s2) EXCEPT !.testState = TEST_RETURNING_HOME]
               IN stepper_moveTo(s3, s3.homePosition)
          ELSE s2

v3_handleReturningHome(s, due) ==
  LET s1 == stepper_run(s, due)
  IN IF stepper_distanceToGo(s1) = 0
     THEN [s1 EXCEPT !.testState = TEST_IDLE]
     ELSE s1

v3_handleEmergencyStop(s, stopSteps) ==
  LET s1 == stepper_setSpeed(stepper_stop(s, stopSteps), 0)
      s2 == stopStreaming(s1)
  IN IF Len(s2.serialBuf) > 0
     THEN LET cmd == Head(s2.serialBuf)
              s3 == [s2 EXCEPT !.serialBuf = Tail(@)]
          IN IF IsReset(cmd)
             THEN [s3 EXCEPT !.emergencyStop = FALSE, !.testState = TEST_IDLE]
             ELSE s3
     ELSE s2

v3_lockedOut(s, cmd) == s.testState # TEST_IDLE /\ cmd # "S" /\ cmd # "R"

v3_handleSerialCommand(s, stopSteps) ==
  IF Len(s.serialBuf) > 0
  THEN LET cmd == Head(s.serialBuf)
           s1 == [s EXCEPT !.serialBuf = <<>>]
       IN IF v3_lockedOut(s1, cmd) THEN s1
          ELSE LET s2 == IF cmd \in DigitCmds
                         THEN v3_startTest(s1, DigitIndex(cmd))
                         ELSE s1
               IN CASE cmd \in {"T", "t"} -> LoadCell_tareNoDelay(s2)
                    [] cmd = "0" -> [s2 EXCEPT !.homePosition = s2.stepperPos]
                    [] cmd \in {"H", "h"} -> goHome(s2)
                    [] cmd \in {"S", "s"} ->
                         IF s2.testState # TEST_IDLE
                         THEN [stopStreaming(stepper_stop(s2, stopSteps))
                                 EXCEPT !.testState = TEST_IDLE]
                         ELSE s2
                    [] OTHER -> s2
  ELSE s

\* The inputs of one pass are those of the mode-based controller's pass, and
\*   streamDue  STREAM_INTERVAL has elapsed since the last data point
v3_loop(s, in) ==
  LET s0 == LoadCell_update([s EXCEPT !.out = <<>>, !.serialBuf = @ \o in.rx], in.tareDone)
      s1 == [v3_handleSerialCommand(s0, in.stopSteps) EXCEPT !.serialBuf = @ \o in.late]
  IN IF s1.emergencyStop
     THEN v3_handleEmergencyStop(s1, in.stopSteps)
     ELSE LET s2 == CASE s1.testState = TEST_MOVING_DOWN ->
                           v3_handleMovingDown(s1, in.due, in.force)
                      [] s1.testState = TEST_RETURNING_HOME ->
                           v3_handleReturningHome(s1, in.due)
                      [] OTHER -> s1
              s3 == IF s2.isStreaming /\ in.streamDue
                    THEN streamDataPoint(s2, s2.stepperPos)
                    ELSE s2
              st == LoadCell_getTareStatus(s3)
          IN IF st.val THEN scale_resetFilters(st.s) ELSE st.s

V3Cmds == {"1", "8", "S", "s", "R", "0", "H", "T", "x"}

V3Inputs(s, rxs) ==
  {[rx |-> r, late |-> l, due |-> d, force |-> f, stopSteps |-> st,
    tareDone |-> td, streamDue |-> sd] :
     r \in rxs, l \in {<<>>, <<"R">>}, d \in BOOLEAN, f \in {0, 60000000},
     st \in 1..MaxStopSteps, td \in BOOLEAN, sd \in BOOLEAN}

\* A pass reads what the state lets it read, and a go-home is taken where
\* its loop ends.
V3Reads(s, in) ==
  LET s1 == [v3_handleSerialCommand([s EXCEPT !.serialBuf = @ \o in.rx], in.stopSteps)
               EXCEPT !.serialBuf = @ \o in.late]
      hears == Len(in.rx) > 0 /\ ~v3_lockedOut(s, Head(in.rx))
  IN /\ (in.late # <<>>) => (s1.emergencyStop /\ in.rx = <<>>)
     /\ in.tareDone => s.tareBusy
     /\ in.streamDue => s1.isStreaming
     /\ in.force # 0 => (~s1.emergencyStop /\ s1.testState = TEST_MOVING_DOWN)
     /\ in.due => (~s1.emergencyStop /\ s1.testState # TEST_IDLE)
     /\ (hears /\ Head(in.rx) \in {"H", "h"}) => goHomeTerminates(s)
     /\ (hears /\ Head(in.rx) = "0") => s.stepperPos + testDistance <= MaxPos

V3Step(rxs) ==
  \E t \in {v3_loop(State, in) : in \in {i \in V3Inputs(State, rxs) : V3Reads(State, i)}} :
    Becomes(t)

InitV3 ==
  InitSized([eeproms |-> {DEFAULT_CAL_FACTOR}], SCALE_SAMPLE_SIZE)

V3Pass == V3Step({<<>>})
V3Command == V3Step({<<c>> : c \in V3Cmds})
NextV3 == V3Pass \/ V3Command

SpecV3 == InitV3 /\ [][NextV3]_vars

\* ------------------------------------------------ the AutoSpeedTest sketch
\* The motor and vibration sketch: A runs the eight speed profiles one after
\* the other over the same stroke, logging while the motor moves down.
startLogging(s) == Emit([s EXCEPT !.isLogging = TRUE], "DATA_START", 0)

stopLogging(s) ==
  IF ~s.isLogging THEN s
  ELSE Emit([s EXCEPT !.isLogging = FALSE], "DATA_END", 0)

startNextTest(s) ==
  LET s1 == Emit(s, "AUTO_TEST", s.currentTestIndex)
      s2 == [s1 EXCEPT !.targetPosition = s1.homePosition + testDistance]
      s3 == startLogging(stepper_moveTo(s2, s2.targetPosition))
  IN [s3 EXCEPT !.testState = TEST_MOVING]

startAutoTest_KeepsIndex(s) ==
  IF s.autoTestMode THEN s
  ELSE startNextTest([s EXCEPT !.autoTestMode = TRUE])

startAutoTest(s) ==
  IF s.autoTestMode THEN s
  ELSE startNextTest([s EXCEPT !.autoTestMode = TRUE, !.currentTestIndex = 0])

stopAutoTest(s, stopSteps) ==
  IF ~s.autoTestMode THEN s
  ELSE LET s1 == Emit([s EXCEPT !.autoTestMode = FALSE, !.testState = TEST_IDLE],
                      "TEST_STOPPED", 0)
       IN stepper_stop(stopLogging(s1), stopSteps)

goHomeManual(s) ==
  LET s1 == stepper_moveTo(s, s.homePosition)
  IN IF stepper_distanceToGo(s1) = 0
     THEN s1
     ELSE stepper_computeNewSpeed([s1 EXCEPT !.stepperPos = s1.stepperTarget])

\* The command section of loop().
speedTest_command(s, stopSteps) ==
  IF Len(s.serialBuf) > 0
  THEN LET cmd == Head(s.serialBuf)
           s1 == [s EXCEPT !.serialBuf = <<>>]
       IN CASE cmd \in {"A", "a"} -> startAutoTest(s1)
            [] cmd \in {"S", "s"} -> stopAutoTest(s1, stopSteps)
            [] cmd = "0" -> [s1 EXCEPT !.homePosition = s1.stepperPos]
            [] cmd \in {"H", "h"} -> IF ~s1.autoTestMode THEN goHomeManual(s1) ELSE s1
            [] OTHER -> s1
  ELSE s

\* The state machine of loop().
speedTest_stateMachine(s, due) ==
  IF ~s.autoTestMode THEN s
  ELSE CASE s.testState = TEST_MOVING ->
              LET s1 == stepper_run(s, due)
              IN IF stepper_distanceToGo(s1) = 0
                 THEN LET s2 == [stopLogging(s1) EXCEPT !.testState = TEST_RETURNING]
                      IN stepper_moveTo(s2, s2.homePosition)
                 ELSE s1
         [] s.testState = TEST_RETURNING ->
              LET s1 == stepper_run(s, due)
              IN IF stepper_distanceToGo(s1) = 0
                 THEN LET s2 == [s1 EXCEPT !.currentTestIndex = @ + 1]
                      IN IF s2.currentTestIndex >= NumTests
                         THEN [s2 EXCEPT !.autoTestMode = FALSE, !.testState = TEST_IDLE]
                         ELSE startNextTest([s2 EXCEPT !.testState = TEST_WAITING])
                 ELSE s1
         [] OTHER -> s

\* One pass of loop().  logDue: LOG_INTERVAL has elapsed since the last row.
speedTest_loop(s, in) ==
  LET s0 == [s EXCEPT !.out = <<>>, !.serialBuf = @ \o in.rx]
      s1 == speedTest_stateMachine(speedTest_command(s0, in.stopSteps), in.due)
  IN IF s1.isLogging /\ in.logDue THEN streamDataPoint(s1, s1.stepperPos) ELSE s1

SpeedCmds == {"A", "S", "s", "0", "H", "x"}

\* The commands that leave homePosition alone.
RunCmds == SpeedCmds \ {"0"}

SpeedInputs(s, rxs) ==
  {in \in [rx : rxs, due : BOOLEAN, stopSteps : 1..MaxStopSteps, logDue : BOOLEAN] :
     /\ in.rx = <<"0">> => s.stepperPos + testDistance <= MaxPos
     /\ in.logDue => speedTest_command([s EXCEPT !.serialBuf = in.rx], in.stopSteps).isLogging}

SpeedStep(ins) == \E t \in {speedTest_loop(State, in) : in \in ins} : Becomes(t)

\* The state after setup().
InitSpeedTest ==
  StateIs([SetupState(DEFAULT_CAL_FACTOR, SAMPLE_SIZE) EXCEPT !.currentTestIndex = 0])

SpeedPass == SpeedStep(SpeedInputs(State, {<<>>}))
SpeedCommand == SpeedStep(SpeedInputs(State, {<<c>> : c \in SpeedCmds}))
NextSpeedTest == SpeedPass \/ SpeedCommand

SpecSpeedTest == InitSpeedTest /\ [][NextSpeedTest]_vars

\* Runs that receive no set-home: 0 arrives between runs only.  The step
\* interval of the planner elapses again and again.
SpeedDuePass == SpeedStep({in \in SpeedInputs(State, {<<>>}) : in.due})
SpeedRunCommand ==
  SpeedStep(SpeedInputs(State, {<<c>> : c \in IF autoTestMode THEN RunCmds ELSE SpeedCmds}))
NextSpeedRun == SpeedPass \/ SpeedRunCommand

SpecSpeedRun == InitSpeedTest /\ [][NextSpeedRun]_vars /\ WF_vars(SpeedDuePass)

\* C33 as stated: in the v3.0 firmware both S and s, read by the dispatcher
\* while testState is MOVING_DOWN or RETURNING_HOME, stop the planner, close
\* the streaming session and set testState to IDLE.
C33_Original ==
  testState \in {TEST_MOVING_DOWN, TEST_RETURNING_HOME} =>
    \A c \in {"S", "s"} : \A st \in 1..MaxStopSteps :
      LET t == v3_handleSerialCommand([State EXCEPT !.serialBuf = <<c>>, !.out = <<>>], st)
      IN /\ t.testState = TEST_IDLE
         /\ t.stepperTarget = stepper_stop(State, st).stepperTarget
         /\ ~t.isStreaming
         /\ isStreaming => Logs(t.out, "END_STREAM")

\* C34: in the AutoSpeedTest sketch, a run started by A with the planner at
\* the home position P and receiving no set-home starts with test 0 moving to
\* P + testDistance; while it runs the index stays or, when a return reaches
\* P, goes up by one as the next test starts moving to P + testDistance; a
\* stroke turns to the return to P at P + testDistance with logging stopped;
\* unless S stops it, the run ends after the return of test 7, with
\* testState = IDLE, logging stopped and the planner at P; every run ends;
\* and A while a run is in progress and S while none is change no state.
C34_StartsAtZero ==
  (~autoTestMode /\ autoTestMode' /\ stepperPos = homePosition) =>
    /\ currentTestIndex' = 0 /\ testState' = TEST_MOVING /\ isLogging'
    /\ homePosition' = homePosition
    /\ stepperTarget' = homePosition + testDistance
    /\ Count(out', "AUTO_TEST") = 1 /\ Event("AUTO_TEST", 0) \in {out'[i] : i \in 1..Len(out')}

C34_InOrder ==
  (autoTestMode /\ autoTestMode') =>
    /\ homePosition' = homePosition
    /\ \/ /\ currentTestIndex' = currentTestIndex
          /\ ~Logs(out', "AUTO_TEST")
          /\ testState' = testState \/ (testState = TEST_MOVING /\ testState' = TEST_RETURNING)
       \/ /\ currentTestIndex' = currentTestIndex + 1
          /\ currentTestIndex' < NumTests
          /\ testState = TEST_RETURNING /\ testState' = TEST_MOVING
          /\ stepperPos' = homePosition /\ isLogging'
          /\ Count(out', "AUTO_TEST") = 1
          /\ Event("AUTO_TEST", currentTestIndex') \in {out'[i] : i \in 1..Len(out')}
    /\ testState' = TEST_MOVING =>
         /\ stepperTarget' = homePosition + testDistance
         /\ stepperPos' < stepperTarget'
    /\ testState' = TEST_RETURNING => stepperTarget' = homePosition
    /\ (testState = TEST_MOVING /\ testState' = TEST_RETURNING) =>
         stepperPos' = homePosition + testDistance /\ ~isLogging'

C34_EndsAtHome ==
  (autoTestMode /\ ~autoTestMode') =>
    /\ testState' = TEST_IDLE /\ ~isLogging'
    /\ ~Logs(out', "TEST_STOPPED") =>
         /\ currentTestIndex = NumTests - 1 /\ currentTestIndex' = NumTests
         /\ testState = TEST_RETURNING
         /\ homePosition' = homePosition /\ stepperPos' = homePosition

C34_NoEffect ==
  /\ autoTestMode =>
       \A c \in {"A", "a"} :
         speedTest_command([State EXCEPT !.serialBuf = <<c>>], 1) = [State EXCEPT !.serialBuf = <<>>]
  /\ ~autoTestMode =>
       \A c \in {"S", "s"} : \A st \in 1..MaxStopSteps :
         speedTest_command([State EXCEPT !.serialBuf = <<c>>], st) = [State EXCEPT !.serialBuf = <<>>]

C34_AutoTestRunsAllTests ==
  /\ [][C34_StartsAtZero /\ C34_InOrder /\ C34_EndsAtHome]_vars
  /\ []C34_NoEffect
  /\ autoTestMode ~> (~autoTestMode /\ testState = TEST_IDLE /\ ~isLogging)

\* A run started at a home position other than the power-up position has
\* ended by itself: all eight tests are done and the planner is back at home.
C34_Witness ==
  /\ ~autoTestMode /\ testState = TEST_IDLE /\ ~isLogging
  /\ currentTestIndex = NumTests
  /\ homePosition > 0 /\ stepperPos = homePosition
  /\ ~Logs(out, "TEST_STOPPED")

\* C35 as stated: in the AutoSpeedTest sketch every stroke of a run is the
\* one fixed when A was issued, whatever commands arrive during the run: a
\* pass that leaves the run in progress leaves homePosition as it is, each
\* MOVING phase targets homePosition + testDistance and each RETURNING phase
\* targets homePosition.
C35_Original ==
  autoTestMode =>
    /\ testState = TEST_MOVING => stepperTarget = homePosition + testDistance
    /\ testState = TEST_RETURNING => stepperTarget = homePosition
    /\ \A in \in SpeedInputs(State, {<<>>} \cup {<<c>> : c \in SpeedCmds}) :
         LET t == speedTest_loop(State, in)
         IN t.autoTestMode => t.homePosition = homePosition

====
